---------------------------- MODULE Spec2Model ----------------------------
(***************************************************************************)
(* A model of the exception unwinder of hphp/runtime/vm/unwind.cpp:        *)
(* checkHandlers, tearDownFrame, chainFaultObjects, chainFaults,           *)
(* unwindPhp and unwindCpp, run against a small bytecode program.          *)
(*                                                                         *)
(* The two drivers are modelled step by step (one action per block of the  *)
(* driver's loop) because they call out to guest destructors, which may    *)
(* enter a nested VM and raise again while the driver is part-way through. *)
(***************************************************************************)
EXTENDS Integers, Sequences, FiniteSets, TLC

(***************************************************************************)
(* Bounds of the model.                                                    *)
(***************************************************************************)
\* frames of the outermost nesting's call chain
MaxDepth == 2
\* nested VM entries (guest destructors run by the unwinder)
MaxNesting == 1
\* guest raises by the interpreter (unwindPhp(ObjectData*))
MaxThrows == 2
\* distinct guest exception objects
NumExc == 2

(***************************************************************************)
(* Sentinels.                                                              *)
(***************************************************************************)
\* nullptr, for ActRec*, PC and ObjectData*
Null == 0
kInvalidOffset == -1
kInvalidNesting == -1
\* EHEnt::m_parentIndex of an outermost region, and "findEH found nothing"
NoParent == -1

(***************************************************************************)
(* The bytecode program: function descriptors.  Offsets are unit offsets;  *)
(* a frame's m_soff is relative to its caller's base().                    *)
(***************************************************************************)
NoEH == <<>>

EHEnt(type, base, past, handler, parentIndex) ==
  [m_type |-> type, m_base |-> base, m_past |-> past,
   m_handler |-> handler, m_parentIndex |-> parentIndex]

FPIEnt(fpushOff, fpiEndOff) == [m_fpushOff |-> fpushOff, m_fpiEndOff |-> fpiEndOff]

\* g: a caller with nested protected regions and two call sites.
\*   102 FPushFuncD .. 106 FCall (returns to 107)
\*   116 FPushCtorD .. 119 FCall (returns to 120)
\*   [110,130) Catch at 140; [115,125) Fault at 150; [118,122) Fault at 160;
\*   the funclet at 150 holds its own try [152,155) with a Catch at 157;
\*   [111,114) Catch at 126, a catch block laid out inside [110,130).
FuncG ==
  [base |-> 100,
   ehtab |-> (0 :> EHEnt("Catch", 110, 130, 140, NoParent)
           @@ 1 :> EHEnt("Fault", 115, 125, 150, 0)
           @@ 2 :> EHEnt("Fault", 118, 122, 160, 1)
           @@ 3 :> EHEnt("Catch", 152, 155, 157, NoParent)
           @@ 4 :> EHEnt("Catch", 111, 114, 126, 0)),
   fpitab |-> <<FPIEnt(102, 106), FPIEnt(116, 119)>>,
   ops |-> (102 :> "FPushFuncD" @@ 116 :> "FPushCtorD" @@ 105 :> "CGetM"),
   raiseOffs |-> {105, 112, 118},
   isAsyncFunction |-> FALSE, isAsyncGenerator |-> FALSE,
   isNonAsyncGenerator |-> FALSE,
   cls |-> FALSE, isCtor |-> FALSE, clsHasDtor |-> FALSE,
   dtorLocals |-> TRUE]

\* h: a plain function with one fault funclet.
FuncH ==
  [base |-> 0,
   ehtab |-> (0 :> EHEnt("Fault", 4, 8, 12, NoParent)),
   fpitab |-> <<>>,
   ops |-> (9 :> "RetC"),
   raiseOffs |-> {5, 9},
   isAsyncFunction |-> FALSE, isAsyncGenerator |-> FALSE,
   isNonAsyncGenerator |-> FALSE,
   cls |-> FALSE, isCtor |-> FALSE, clsHasDtor |-> FALSE,
   dtorLocals |-> TRUE]

\* C::__construct of a class C that defines __destruct.
FuncCtor ==
  [base |-> 0, ehtab |-> NoEH, fpitab |-> <<>>,
   ops |-> (9 :> "RetC"),
   raiseOffs |-> {5, 9},
   isAsyncFunction |-> FALSE, isAsyncGenerator |-> FALSE,
   isNonAsyncGenerator |-> FALSE,
   cls |-> TRUE, isCtor |-> TRUE, clsHasDtor |-> TRUE,
   dtorLocals |-> FALSE]

\* D::__construct of a class D without a destructor.
FuncCtorNoDtor == [FuncCtor EXCEPT !.clsHasDtor = FALSE]

\* a method of C that is not its constructor
FuncMethod == [FuncCtor EXCEPT !.isCtor = FALSE]

FuncAsync ==
  [base |-> 0, ehtab |-> NoEH, fpitab |-> <<>>,
   ops |-> <<>>,
   raiseOffs |-> {5},
   isAsyncFunction |-> TRUE, isAsyncGenerator |-> FALSE,
   isNonAsyncGenerator |-> FALSE,
   cls |-> FALSE, isCtor |-> FALSE, clsHasDtor |-> FALSE,
   dtorLocals |-> FALSE]

FuncAsyncGen == [FuncAsync EXCEPT !.isAsyncFunction = FALSE, !.isAsyncGenerator = TRUE]

FuncGen == [FuncAsync EXCEPT !.isAsyncFunction = FALSE, !.isNonAsyncGenerator = TRUE]

\* __destruct of some object held by a temporary or a local: one Catch region.
FuncDtor ==
  [base |-> 0,
   ehtab |-> (0 :> EHEnt("Catch", 2, 8, 10, NoParent)),
   fpitab |-> <<>>,
   ops |-> <<>>,
   raiseOffs |-> {5},
   isAsyncFunction |-> FALSE, isAsyncGenerator |-> FALSE,
   isNonAsyncGenerator |-> FALSE,
   cls |-> TRUE, isCtor |-> FALSE, clsHasDtor |-> TRUE,
   dtorLocals |-> FALSE]

Funcs ==
  [g |-> FuncG, h |-> FuncH, ctor |-> FuncCtor, ctorNoDtor |-> FuncCtorNoDtor,
   method |-> FuncMethod, afn |-> FuncAsync, agen |-> FuncAsyncGen,
   gen |-> FuncGen, dtor |-> FuncDtor]

\* Unit::getOp(offset)
getOp(func, off) ==
  IF off \in DOMAIN Funcs[func].ops THEN Funcs[func].ops[off] ELSE "Nop"

\* faulty variant: no instruction counts as a constructor push
isFPushCtorNever(op) == FALSE

isFPushCtor(op) == op \in {"FPushCtor", "FPushCtorD", "FPushCtorI"}

isMemberOp(op) == op \in {"CGetM", "SetM", "Dim", "QueryM"}


(***************************************************************************)
(* Func::findEH(offset): the innermost protected region covering offset,   *)
(* as an index into ehtab, or NoParent when none covers it.                *)
(***************************************************************************)
findEH(func, off) ==
  LET tab == Funcs[func].ehtab
      covering == {i \in DOMAIN tab : tab[i].m_base <= off /\ off < tab[i].m_past}
      size(i) == tab[i].m_past - tab[i].m_base
  IN IF covering = {} THEN NoParent
     ELSE CHOOSE i \in covering : \A j \in covering : size(i) <= size(j)

\* Func::findPrecedingFPI(o): the FPI region that ended last before o
\* (0 when the table has none).
findPrecedingFPI(func, o) ==
  LET tab == Funcs[func].fpitab
      before == {i \in DOMAIN tab : tab[i].m_fpiEndOff < o}
  IN IF before = {} THEN 0
     ELSE CHOOSE i \in before :
            \A j \in before : tab[j].m_fpiEndOff <= tab[i].m_fpiEndOff

(***************************************************************************)
(* Fault records.                                                          *)
(***************************************************************************)
\* `Fault fault;` as unwindPhp(ObjectData*) builds it
NewFault(exc) ==
  [m_userException |-> exc, m_raiseNesting |-> kInvalidNesting,
   m_raiseFrame |-> Null, m_raiseOffset |-> kInvalidOffset,
   m_handledCount |-> 0]

NoFault == NewFault(Null)

Front(s) == SubSeq(s, 1, Len(s) - 1)
Last(s) == s[Len(s)]
ReplaceTop(s, x) == Append(Front(s), x)

(***************************************************************************)
(* checkHandlers: walk the parentIndex chain from eh; the loop counter i   *)
(* counts the entries passed.  The result carries the action, the new pc   *)
(* and the updated fault (both are reference parameters in the source).    *)
(***************************************************************************)
RECURSIVE checkHandlersLoopSkipOne(_, _, _, _)
checkHandlersLoopSkipOne(eh, func, i, fault) ==
  LET ent == Funcs[func].ehtab[eh] IN
  IF fault.m_handledCount <= i + 1
  THEN [action |-> "ResumeVM", pc |-> ent.m_handler, eh |-> eh,
        fault |-> [fault EXCEPT !.m_handledCount = @ + 1]]
  ELSE IF ent.m_parentIndex # NoParent
  THEN checkHandlersLoopSkipOne(ent.m_parentIndex, func, i + 1, fault)
  ELSE [action |-> "Propagate", pc |-> Null, eh |-> NoParent, fault |-> fault]

\* faulty variant: fault funclets are passed over, only catches are entered
RECURSIVE checkHandlersLoopCatchOnly(_, _, _, _)
checkHandlersLoopCatchOnly(eh, func, i, fault) ==
  LET ent == Funcs[func].ehtab[eh] IN
  IF fault.m_handledCount <= i /\ ent.m_type = "Catch"
  THEN [action |-> "ResumeVM", pc |-> ent.m_handler, eh |-> eh,
        fault |-> [fault EXCEPT !.m_handledCount = @ + 1]]
  ELSE IF ent.m_parentIndex # NoParent
  THEN checkHandlersLoopCatchOnly(ent.m_parentIndex, func, i + 1, fault)
  ELSE [action |-> "Propagate", pc |-> Null, eh |-> NoParent, fault |-> fault]

RECURSIVE checkHandlersLoop(_, _, _, _)
checkHandlersLoop(eh, func, i, fault) ==
  LET ent == Funcs[func].ehtab[eh] IN
  IF fault.m_handledCount <= i /\ ent.m_type \in {"Fault", "Catch"}
  THEN [action |-> "ResumeVM", pc |-> ent.m_handler, eh |-> eh,
        fault |-> [fault EXCEPT !.m_handledCount = @ + 1]]
  ELSE IF ent.m_parentIndex # NoParent
  THEN checkHandlersLoop(ent.m_parentIndex, func, i + 1, fault)
  ELSE [action |-> "Propagate", pc |-> Null, eh |-> NoParent, fault |-> fault]

\* faulty variant: the walk without `fault.m_handledCount++`
checkHandlersNoCount(eh, func, fault) ==
  [checkHandlersLoop(eh, func, 0, fault) EXCEPT !.fault = fault]

checkHandlers(eh, func, fault) == checkHandlersLoop(eh, func, 0, fault)

(***************************************************************************)
(* chainFaultObjects(top, prev): prv is the heap's `previous` slot of each *)
(* throwable (Null when unset).  Returns the new slots.                    *)
(***************************************************************************)
\* findAcyclicPrev: the object whose previous slot is the first unset one
\* on head's chain, or Null when the walk revisits a node of seen.
RECURSIVE findAcyclicPrev(_, _, _)
findAcyclicPrev(head, seen, prv) ==
  IF head \in seen THEN [slot |-> Null, seen |-> seen]
  ELSE IF prv[head] # Null
       THEN findAcyclicPrev(prv[head], seen \cup {head}, prv)
       ELSE [slot |-> head, seen |-> seen \cup {head}]

\* faulty variant: prev's chain is not walked before the link is made
chainFaultObjectsNoCheck(top, prev, prv) ==
  LET a == findAcyclicPrev(top, {}, prv)
  IN IF a.slot = Null THEN prv ELSE [prv EXCEPT ![a.slot] = prev]

\* faulty variant: the objects are never linked
chainFaultObjectsNoLink(top, prev, prv) == prv

chainFaultObjects(top, prev, prv) ==
  LET a == findAcyclicPrev(top, {}, prv)
      b == findAcyclicPrev(prev, a.seen, prv)
  IN IF a.slot = Null \/ b.slot = Null THEN prv
     ELSE [prv EXCEPT ![a.slot] = prev]

\* whether chainFaultObjects gives up prev's reference (decRefObj(prev) in
\* findAcyclicPrev) instead of storing it
releasesPrev(top, prev, prv) ==
  LET a == findAcyclicPrev(top, {}, prv)
      b == findAcyclicPrev(prev, a.seen, prv)
  IN a.slot = Null \/ b.slot = Null

(***************************************************************************)
(* chainFaults(fault): faults is g_context->m_faults, fault the driver's   *)
(* copy of its top.  Returns whether a merge happened, the updated copy,   *)
(* the new fault stack and the new previous slots.                         *)
(***************************************************************************)
\* faulty variant: records of another VM nesting are merged as well
chainFaultsAnyNesting(fault, faults, prv) ==
  LET rest == Front(faults)
      prev == Last(rest)
  IN IF rest = <<>>
     THEN [merged |-> FALSE, fault |-> fault, faults |-> Append(rest, fault),
           prv |-> prv]
     ELSE IF fault.m_raiseFrame = prev.m_raiseFrame
     THEN LET f2 == [fault EXCEPT !.m_raiseOffset = prev.m_raiseOffset,
                                  !.m_handledCount = prev.m_handledCount]
          IN [merged |-> TRUE, fault |-> f2,
              faults |-> Append(Front(rest), f2),
              prv |-> chainFaultObjects(fault.m_userException,
                                        prev.m_userException, prv)]
     ELSE [merged |-> FALSE, fault |-> fault, faults |-> Append(rest, fault),
           prv |-> prv]

\* faulty variant: without a merge the stack is left as it was, the copy is
\* not stored as its top
chainFaultsKeepsTop(fault, faults, prv) ==
  LET rest == Front(faults)
      prev == Last(rest)
  IN IF rest = <<>>
     THEN [merged |-> FALSE, fault |-> fault, faults |-> faults, prv |-> prv]
     ELSE IF fault.m_raiseNesting = prev.m_raiseNesting
             /\ fault.m_raiseFrame = prev.m_raiseFrame
     THEN LET f2 == [fault EXCEPT !.m_raiseOffset = prev.m_raiseOffset,
                                  !.m_handledCount = prev.m_handledCount]
          IN [merged |-> TRUE, fault |-> f2,
              faults |-> Append(Front(rest), f2),
              prv |-> chainFaultObjects(fault.m_userException,
                                        prev.m_userException, prv)]
     ELSE [merged |-> FALSE, fault |-> fault, faults |-> faults, prv |-> prv]

\* faulty variant: a merge leaves the previous record on the stack
chainFaultsNoPop(fault, faults, prv) ==
  LET rest == Front(faults)
      prev == Last(rest)
  IN IF rest = <<>>
     THEN [merged |-> FALSE, fault |-> fault, faults |-> Append(rest, fault),
           prv |-> prv]
     ELSE IF fault.m_raiseNesting = prev.m_raiseNesting
             /\ fault.m_raiseFrame = prev.m_raiseFrame
     THEN LET f2 == [fault EXCEPT !.m_raiseOffset = prev.m_raiseOffset,
                                  !.m_handledCount = prev.m_handledCount]
          IN [merged |-> TRUE, fault |-> f2,
              faults |-> Append(rest, f2),
              prv |-> chainFaultObjects(fault.m_userException,
                                        prev.m_userException, prv)]
     ELSE [merged |-> FALSE, fault |-> fault, faults |-> Append(rest, fault),
           prv |-> prv]

chainFaults(fault, faults, prv) ==
  LET rest == Front(faults)
      prev == Last(rest)
  IN IF rest = <<>>
     THEN [merged |-> FALSE, fault |-> fault, faults |-> Append(rest, fault),
           prv |-> prv]
     ELSE IF fault.m_raiseNesting = prev.m_raiseNesting
             /\ fault.m_raiseFrame = prev.m_raiseFrame
     THEN LET f2 == [fault EXCEPT !.m_raiseOffset = prev.m_raiseOffset,
                                  !.m_handledCount = prev.m_handledCount]
          IN [merged |-> TRUE, fault |-> f2,
              faults |-> Append(Front(rest), f2),
              prv |-> chainFaultObjects(fault.m_userException,
                                        prev.m_userException, prv)]
     ELSE [merged |-> FALSE, fault |-> fault, faults |-> Append(rest, fault),
           prv |-> prv]


(***************************************************************************)
(* State.                                                                  *)
(***************************************************************************)
VARIABLES
  frames,       \* ActRec, the fields the unwinder only reads
  fstate,       \* ActRec and its coroutine object, the fields it writes
  temps,        \* evaluation-stack temporaries of each frame, top last
  vmfp, vmpc,   \* vmfp(), vmpc() (pc as a unit offset)
  m_faults,     \* g_context->m_faults
  m_nestedVMs,  \* g_context->m_nestedVMs: the saved registers of outer VMs
  m_unwindingCppException,  \* g_context->m_unwindingCppException
  m_pendingException,       \* ThreadInfo::m_pendingException != nullptr
  noDestruct,   \* objects on which setNoDestruct() was called
  previous,     \* the `previous` slot of each throwable
  tvRef,        \* vmMInstrState().tvRef / tvRef2 hold a value
  calls,        \* the native call stack: driver activations and dtor calls
  throws,       \* guest raises so far
  result,       \* how the driver that returned in the last step ended
  entered       \* per fault record: the ehtab entries entered since binding

vars ==
  <<frames, fstate, temps, vmfp, vmpc, m_faults, m_nestedVMs,
    m_unwindingCppException, m_pendingException, noDestruct, previous, tvRef,
    calls, throws, result, entered>>

FrameIds == 1..(MaxDepth + MaxNesting)
Exceptions == 1..NumExc

\* the frame a destructor runs in at nesting level n
DtorFrame(n) == MaxDepth + n

NoResult == [driver |-> "none", outcome |-> "none", exc |-> Null, torn |-> <<>>,
             fp0 |-> Null]

\* an activation of unwindPhp or unwindCpp, or a destructor call in progress
Activation(kind, label, fault, fp0, fbase) ==
  [kind |-> kind, label |-> label, fault |-> fault, discard |-> FALSE,
   freeing |-> FALSE, ran |-> FALSE, fp0 |-> fp0, torn |-> <<>>,
   fbase |-> fbase]

Top == calls[Len(calls)]
SetTop(a) == Append(Front(calls), a)

\* the interpreter is executing guest code (no driver is on top)
Running == vmfp # Null /\ (IF calls = <<>> THEN TRUE ELSE Top.kind = "dtor")

\* faults pushed before the current nesting was entered
FaultBase == IF calls = <<>> THEN 0 ELSE Top.fbase

FuncOf(fp) == frames[fp].func

(***************************************************************************)
(* Evaluation-stack elements.                                              *)
(***************************************************************************)
PreLiveAR(pushOff, this) == [k |-> "AR", pushOff |-> pushOff, this |-> this, dtor |-> FALSE]
TV(dtor) == [k |-> "TV", pushOff |-> 0, this |-> Null, dtor |-> dtor]

\* what the interpreter may have on the stack of frame fp when it raises at off
TempsAt(fp, off) ==
  LET func == FuncOf(fp) IN
  CASE func = "g" /\ off = 105 -> {<<PreLiveAR(102, 20 + fp)>>}
    [] func = "g" /\ off = 118 ->
         {<<PreLiveAR(116, 10 + fp)>>, <<PreLiveAR(116, 10 + fp), TV(TRUE)>>}
    [] func = "g" /\ off = 112 -> {<<>>, <<TV(FALSE)>>}
    [] func = "dtor" -> {<<>>, <<TV(FALSE)>>}
    [] OTHER -> {<<>>}

\* faulty variant: the receiver of every pre-live ActRec is marked
RECURSIVE discardStackTempsMarkAll(_, _, _)
discardStackTempsMarkAll(func, stk, nd) ==
  IF stk = <<>> THEN [temps |-> <<>>, noDestruct |-> nd]
  ELSE LET e == Last(stk) IN
       discardStackTempsMarkAll(func, Front(stk),
         IF e.k = "AR" THEN nd \cup {e.this} ELSE nd)

\* discardStackTemps: pop every element (visitStackElems walks from the
\* top), marking the receiver of each pre-live ActRec pushed by FPushCtor*.
RECURSIVE discardStackTemps(_, _, _)
discardStackTemps(func, stk, nd) ==
  IF stk = <<>> THEN [temps |-> <<>>, noDestruct |-> nd]
  ELSE LET e == Last(stk) IN
       discardStackTemps(func, Front(stk),
         IF e.k = "AR" /\ isFPushCtor(getOp(func, e.pushOff))
         THEN nd \cup {e.this} ELSE nd)

\* the same walk, stopped when the first value with a guest destructor has
\* been popped: its destructor runs before the walk goes on
RECURSIVE discardUntilDtor(_, _, _)
discardUntilDtor(func, stk, nd) ==
  IF stk = <<>> THEN [temps |-> <<>>, noDestruct |-> nd]
  ELSE LET e == Last(stk) IN
       IF e.k = "TV" /\ e.dtor THEN [temps |-> Front(stk), noDestruct |-> nd]
       ELSE discardUntilDtor(func, Front(stk),
              IF e.k = "AR" /\ isFPushCtor(getOp(func, e.pushOff))
              THEN nd \cup {e.this} ELSE nd)

HasDtorTemp(stk) == \E i \in DOMAIN stk : stk[i].k = "TV" /\ stk[i].dtor

\* discardMemberTVRefs(pc): tvRef and tvRef2 are released and reset when
\* the throwing opcode is a member instruction
discardMemberTVRefs(func, pc, tv) ==
  IF isMemberOp(getOp(func, pc)) THEN FALSE ELSE tv

(***************************************************************************)
(* Initial states: a call chain of 1..MaxDepth frames, the innermost one   *)
(* executing.                                                              *)
(***************************************************************************)
FrameKind(func, resumed, fcallAwait, wh) ==
  [func |-> func, resumed |-> resumed, fcallAwait |-> fcallAwait, wh |-> wh]

InnerKinds ==
  {FrameKind(f, FALSE, FALSE, "none") :
     f \in {"g", "h", "ctor", "ctorNoDtor", "method", "afn"}}
  \cup {FrameKind("afn", FALSE, TRUE, "none")}
  \cup {FrameKind("afn", TRUE, FALSE, w) : w \in {"running", "blocked"}}
  \cup {FrameKind("agen", TRUE, FALSE, w) : w \in {"running", "eager", "blocked"}}
  \cup {FrameKind("gen", TRUE, FALSE, "suspended")}

\* a calling frame and the return offset (m_soff) of its call
CallerChoices ==
  {[kind |-> FrameKind("g", FALSE, FALSE, "none"), soff |-> 7],
   [kind |-> FrameKind("g", FALSE, FALSE, "none"), soff |-> 20],
   [kind |-> FrameKind("h", FALSE, FALSE, "none"), soff |-> 7],
   [kind |-> FrameKind("afn", FALSE, FALSE, "none"), soff |-> 7]}

DtorKind == FrameKind("dtor", FALSE, FALSE, "none")

MkFrame(id, kind, sfp, soff) ==
  [func |-> kind.func, sfp |-> sfp, soff |-> soff, resumed |-> kind.resumed,
   fcallAwait |-> kind.fcallAwait,
   this |-> IF Funcs[kind.func].cls THEN id ELSE Null]

FreshFState(kind) ==
  [localsDecRefd |-> FALSE, ar |-> "live", wh |-> kind.wh, whExc |-> Null,
   whReleased |-> FALSE, ret |-> "none", retExc |-> Null, frees |-> 0]

Init ==
  \E d \in 1..MaxDepth, inner \in InnerKinds,
     callers \in [1..(MaxDepth - 1) -> CallerChoices],
     pending \in BOOLEAN :
    LET dflt == CHOOSE c \in CallerChoices : c.kind.func = "h"
        kindOf(f) == IF f > MaxDepth THEN DtorKind
                     ELSE IF f = d THEN inner
                     ELSE IF f < d THEN callers[f].kind
                     ELSE dflt.kind
    IN /\ \A f \in d..(MaxDepth - 1) : callers[f] = dflt
       /\ frames = [f \in FrameIds |->
                      MkFrame(f, kindOf(f),
                              IF f > MaxDepth \/ f > d THEN Null ELSE f - 1,
                              IF f > 1 /\ f <= d THEN callers[f - 1].soff ELSE 0)]
       /\ fstate = [f \in FrameIds |-> FreshFState(kindOf(f))]
       /\ temps = [f \in FrameIds |-> <<>>]
       /\ vmfp = d
       /\ vmpc = Funcs[inner.func].base + 1
       /\ m_faults = <<>>
       /\ m_nestedVMs = <<>>
       /\ m_unwindingCppException = FALSE
       /\ m_pendingException = pending
       /\ noDestruct = {}
       /\ previous = [e \in Exceptions |-> Null]
       /\ tvRef = FALSE
       /\ calls = <<>>
       /\ throws = 0
       /\ result = NoResult
       /\ entered = <<>>


(***************************************************************************)
(* tearDownFrame.  It runs in two steps, because the release of the locals *)
(* (frame_free_locals_unwind) may run guest destructors in between:        *)
(* tearDownFrameBegin is the constructor guard and decRefLocals' latch,    *)
(* tearDownFrameEnd is everything after the locals were released.          *)
(***************************************************************************)
\* g_context->getPrevVMState(fp, &prevPc): the calling frame and the unit
\* offset it resumes at; across a nesting boundary, the saved registers.
getPrevVMState(fp) ==
  IF frames[fp].sfp # Null
  THEN [fp |-> frames[fp].sfp,
        pc |-> frames[fp].soff + Funcs[FuncOf(frames[fp].sfp)].base]
  ELSE IF m_nestedVMs # <<>> THEN Last(m_nestedVMs)
  ELSE [fp |-> Null, pc |-> Null]

\* the condition under which tearDownFrame calls fp->getThis()->setNoDestruct()
ConstructorGuard(fp, pc) ==
  LET fn == Funcs[FuncOf(fp)]
      outer == getPrevVMState(fp)
      fe == IF outer.fp # Null
            THEN findPrecedingFPI(FuncOf(outer.fp), outer.pc) ELSE 0
  IN /\ getOp(FuncOf(fp), pc) # "RetC"
     /\ ~fstate[fp].localsDecRefd
     /\ fn.cls
     /\ frames[fp].this # Null
     /\ fn.isCtor
     /\ fn.clsHasDtor
     /\ outer.fp # Null
     /\ fe # 0
     /\ isFPushCtor(getOp(FuncOf(outer.fp),
                          Funcs[FuncOf(outer.fp)].fpitab[fe].m_fpushOff))

\* faulty variant: a resumed async frame is released for a guest exception
\* only
CallsDecRefLocalsGuestOnly(fp, phpException) ==
  LET fn == Funcs[FuncOf(fp)] IN
  IF ~frames[fp].resumed THEN TRUE
  ELSE IF fn.isAsyncFunction \/ fn.isAsyncGenerator
  THEN phpException # Null
  ELSE fn.isNonAsyncGenerator

\* whether the branch tearDownFrame takes for this frame calls decRefLocals
CallsDecRefLocals(fp, phpException) ==
  LET fn == Funcs[FuncOf(fp)] IN
  IF ~frames[fp].resumed THEN TRUE
  ELSE IF fn.isAsyncFunction
  THEN phpException # Null \/ fstate[fp].wh = "running"
  ELSE IF fn.isAsyncGenerator
  THEN phpException # Null \/ fstate[fp].wh \in {"eager", "running"}
  ELSE fn.isNonAsyncGenerator

\* faulty variant: decRefLocals without its `if (!fp->localsDecRefd())`
tearDownFrameBeginNoLatch(fp, pc, phpException) ==
  LET free == CallsDecRefLocals(fp, phpException)
  IN [noDestruct |-> IF ConstructorGuard(fp, pc)
                     THEN noDestruct \cup {frames[fp].this} ELSE noDestruct,
      fstate |-> IF free
                 THEN [fstate EXCEPT ![fp].localsDecRefd = TRUE,
                                     ![fp].frees = @ + 1]
                 ELSE fstate,
      freeing |-> free]

tearDownFrameBegin(fp, pc, phpException) ==
  LET free == CallsDecRefLocals(fp, phpException) /\ ~fstate[fp].localsDecRefd
  IN [noDestruct |-> IF ConstructorGuard(fp, pc)
                     THEN noDestruct \cup {frames[fp].this} ELSE noDestruct,
      fstate |-> IF free
                 THEN [fstate EXCEPT ![fp].localsDecRefd = TRUE,
                                     ![fp].frees = @ + 1]
                 ELSE fstate,
      freeing |-> free]

\* faulty variant: the wrap is made for frames in FCallAwait only
wrapsExceptionInAwait(fp, phpException) ==
  /\ Funcs[FuncOf(fp)].isAsyncFunction
  /\ phpException # Null
  /\ frames[fp].fcallAwait

\* a non-resumed frame wraps the guest exception into a failed
\* StaticWaitHandle: an eagerly executed async function
wrapsException(fp, phpException) ==
  /\ Funcs[FuncOf(fp)].isAsyncFunction
  /\ phpException # Null
  /\ ~frames[fp].fcallAwait

\* faulty variant: m_soff taken for a unit offset
prevOffNoBase(fp) == frames[fp].soff

\* `soff + prevFp->func()->base()`
prevOff(fp) == frames[fp].soff + Funcs[FuncOf(frames[fp].sfp)].base

tearDownFrameEnd(fp, phpException) ==
  LET fr == frames[fp]
      fn == Funcs[fr.func]
      fs == fstate[fp]
      prevFp == fr.sfp
      wrap == wrapsException(fp, phpException)
      fs2 ==
        IF ~fr.resumed
        THEN IF wrap
             THEN [fs EXCEPT !.ar = "returned",
                             !.ret = "StaticWaitHandleFailed",
                             !.retExc = phpException]
             ELSE [fs EXCEPT !.ar = "discarded"]
        ELSE IF fn.isAsyncFunction
        THEN IF phpException # Null
             THEN [fs EXCEPT !.wh = "failed", !.whExc = phpException,
                             !.whReleased = TRUE]
             ELSE IF fs.wh = "running"
             THEN [fs EXCEPT !.wh = "failedCpp", !.whReleased = TRUE]
             ELSE fs
        ELSE IF fn.isAsyncGenerator
        THEN IF phpException # Null
             THEN [fs EXCEPT !.wh = "failed", !.whExc = phpException,
                             !.ret = IF fs.wh = "eager" THEN "EagerResult"
                                     ELSE fs.ret]
             ELSE IF fs.wh \in {"eager", "running"}
             THEN [fs EXCEPT !.wh = "failedCpp"]
             ELSE fs
        ELSE [fs EXCEPT !.wh = "finished"]
      consumed ==
        \/ ~fr.resumed /\ wrap
        \/ fr.resumed /\ (fn.isAsyncFunction \/ fn.isAsyncGenerator)
  IN [fstate |-> [fstate EXCEPT ![fp] = fs2],
      fp |-> prevFp,
      pc |-> IF prevFp = Null THEN Null
             ELSE prevOff(fp),
      exc |-> IF consumed THEN Null ELSE phpException]

(***************************************************************************)
(* Leaving a driver.  A driver that returns goes back to the interpreter   *)
(* loop that called it.  A driver that re-raises to the host leaves the VM *)
(* nesting: out of the embedder's top-level call, or out of the guest      *)
(* destructor that entered the nesting, where the exception is swallowed   *)
(* and the unwinder that released the value goes on.                       *)
(***************************************************************************)
InNested == Len(calls) >= 2 /\ calls[Len(calls) - 1].kind = "dtor"

\* faulty variant: nothing catches the host exception at the destructor's
\* caller, it unwinds the driver that released the value as well
CallsAfterRaiseUncaught ==
  IF InNested THEN SubSeq(calls, 1, Len(calls) - 3) ELSE <<>>

\* the native stack after the top activation re-raised to the host
CallsAfterRaise == IF InNested THEN SubSeq(calls, 1, Len(calls) - 2) ELSE <<>>

RestoreOuterVM ==
  /\ vmfp' = Last(m_nestedVMs).fp
  /\ vmpc' = Last(m_nestedVMs).pc
  /\ m_nestedVMs' = Front(m_nestedVMs)

DriverResult(outcome) ==
  [driver |-> Top.kind, outcome |-> outcome,
   exc |-> Top.fault.m_userException, torn |-> Top.torn, fp0 |-> Top.fp0]


(***************************************************************************)
(* The interpreter (the unwinder's caller).                                *)
(***************************************************************************)
HandlerOffs(func) ==
  {Funcs[func].ehtab[i].m_handler : i \in DOMAIN Funcs[func].ehtab}

\* where the code at pc may raise next: anywhere in the body, or, from a
\* handler, at the handler itself or inside the try block of its funclet
RaiseAt(fp, pc) ==
  LET func == FuncOf(fp) IN
  IF pc \in HandlerOffs(func)
  THEN {pc} \cup (IF func = "g" /\ pc = 150 THEN {153} ELSE {})
  ELSE Funcs[func].raiseOffs

\* the handler the interpreter is executing for the top fault, if any
InHandlerOfType(type) ==
  /\ Len(m_faults) > FaultBase
  /\ Last(m_faults).m_raiseFrame = vmfp
  /\ Last(m_faults).m_raiseNesting = Len(m_nestedVMs)
  /\ Last(entered) # <<>>
  /\ Funcs[FuncOf(vmfp)].ehtab[Last(Last(entered))].m_type = type

\* the instruction at off raises: the registers and the stack at that point.
\* hook: the raise comes from the function-exit hook of a RetC, after the
\* locals were freed (it sets localsDecRefd).
RaiseState(off, tmp, hook) ==
  /\ vmpc' = off
  /\ temps' = [temps EXCEPT ![vmfp] = tmp]
  /\ fstate' = IF hook
               THEN [fstate EXCEPT ![vmfp].localsDecRefd = TRUE,
                                   ![vmfp].frees = @ + 1]
               ELSE fstate
  /\ tvRef' = discardMemberTVRefs(FuncOf(vmfp), off,
                                  isMemberOp(getOp(FuncOf(vmfp), off)))

\* the exit hook runs only at a RetC whose locals are not yet freed
HookChoices(off) ==
  IF getOp(FuncOf(vmfp), off) = "RetC" /\ ~fstate[vmfp].localsDecRefd
  THEN BOOLEAN ELSE {FALSE}

\* unwindPhp(ObjectData*): push a fault for the throwable and unwind
Throw ==
  /\ Running
  /\ throws < MaxThrows
  /\ \E e \in 1..(throws + 1), off \in RaiseAt(vmfp, vmpc) :
       \E tmp \in TempsAt(vmfp, off), hook \in HookChoices(off) :
         /\ e \in Exceptions
         /\ RaiseState(off, tmp, hook)
         /\ m_faults' = Append(m_faults, NewFault(e))
         /\ calls' = Append(calls, Activation("php", "Bind", NewFault(e), vmfp, FaultBase))
  /\ entered' = Append(entered, <<>>)
  /\ throws' = throws + 1
  /\ result' = NoResult
  /\ UNCHANGED <<frames, vmfp, m_nestedVMs, m_unwindingCppException,
                 m_pendingException, noDestruct, previous>>

\* the Unwind opcode at the end of a fault funclet: unwindPhp()
UnwindOp ==
  /\ Running
  /\ InHandlerOfType("Fault")
  /\ temps[vmfp] = <<>>
  /\ calls' = Append(calls, Activation("php", "Bind", Last(m_faults), vmfp, FaultBase))
  /\ tvRef' = discardMemberTVRefs(FuncOf(vmfp), vmpc, tvRef)
  /\ result' = NoResult
  /\ UNCHANGED <<frames, fstate, temps, vmfp, vmpc, m_faults, m_nestedVMs,
                 m_unwindingCppException, m_pendingException, noDestruct,
                 previous, throws, entered>>

\* the Catch opcode at the start of a catch handler: the fault is handled
CatchOp ==
  /\ Running
  /\ InHandlerOfType("Catch")
  /\ vmpc = Funcs[FuncOf(vmfp)].ehtab[Last(Last(entered))].m_handler
  /\ m_faults' = Front(m_faults)
  /\ entered' = Front(entered)
  /\ result' = NoResult
  /\ UNCHANGED <<frames, fstate, temps, vmfp, vmpc, m_nestedVMs,
                 m_unwindingCppException, m_pendingException, noDestruct,
                 previous, tvRef, calls, throws>>

\* unwindCpp(Exception*), up to the loop.  Its precondition
\* assertx(!g_context->m_unwindingCppException) is taken as given: no host
\* exception is raised in a nesting entered while unwindCpp is active.
HostThrow ==
  /\ Running
  /\ ~m_unwindingCppException
  /\ \E off \in RaiseAt(vmfp, vmpc) :
       \E tmp \in TempsAt(vmfp, off), hook \in HookChoices(off) :
         RaiseState(off, tmp, hook)
  /\ m_unwindingCppException' = TRUE
  /\ calls' = Append(calls, Activation("cpp", "Loop", NoFault, vmfp, FaultBase))
  /\ result' = NoResult
  /\ UNCHANGED <<frames, vmfp, m_faults, m_nestedVMs, m_pendingException,
                 noDestruct, previous, throws, entered>>

(***************************************************************************)
(* Guest destructors run by the unwinder: popTV in discardStackTemps and   *)
(* frame_free_locals_unwind in decRefLocals release values whose           *)
(* destructor is guest code, run in a nested VM.                           *)
(***************************************************************************)
EnterNestedVM ==
  LET n == Len(m_nestedVMs) + 1 IN
  /\ m_nestedVMs' = Append(m_nestedVMs, [fp |-> vmfp, pc |-> vmpc])
  /\ vmfp' = DtorFrame(n)
  /\ vmpc' = 1
  /\ fstate' = [fstate EXCEPT ![DtorFrame(n)] = FreshFState(DtorKind)]

DtorEnter ==
  /\ calls # <<>>
  /\ Top.kind \in {"php", "cpp"}
  /\ Len(m_nestedVMs) < MaxNesting
  /\ \/ /\ Top.label = "Discard"
        /\ HasDtorTemp(temps[vmfp])
        /\ LET r == discardUntilDtor(FuncOf(vmfp), temps[vmfp], noDestruct) IN
           /\ temps' = [temps EXCEPT ![vmfp] = r.temps]
           /\ noDestruct' = r.noDestruct
        /\ calls' = Append(calls, Activation("dtor", "run", NoFault, Null, Len(m_faults)))
     \/ /\ Top.label = "Release"
        /\ Top.freeing
        /\ ~Top.ran
        /\ Funcs[FuncOf(vmfp)].dtorLocals
        /\ calls' = Append(SetTop([Top EXCEPT !.ran = TRUE]),
                           Activation("dtor", "run", NoFault, Null, Len(m_faults)))
        /\ UNCHANGED <<temps, noDestruct>>
  /\ EnterNestedVM
  /\ result' = NoResult
  /\ UNCHANGED <<frames, m_faults, m_unwindingCppException, m_pendingException,
                 previous, tvRef, throws, entered>>

\* the destructor returns normally
DtorReturn ==
  /\ Running
  /\ calls # <<>>
  /\ Top.kind = "dtor"
  /\ Len(m_faults) = Top.fbase
  /\ calls' = Front(calls)
  /\ RestoreOuterVM
  /\ result' = NoResult
  /\ UNCHANGED <<frames, fstate, temps, m_faults, m_unwindingCppException,
                 m_pendingException, noDestruct, previous, tvRef, throws,
                 entered>>


(***************************************************************************)
(* unwindPhp(), one action per block of its loops.                         *)
(***************************************************************************)
AtPhp(label) == calls # <<>> /\ Top.kind = "php" /\ Top.label = label

\* the block run for a fault with m_raiseOffset == kInvalidOffset
BindFault(fault, nesting, fp, pc) ==
  [fault EXCEPT !.m_raiseNesting = nesting, !.m_raiseFrame = fp,
                !.m_raiseOffset = pc, !.m_handledCount = 0]

\* faulty variant: the nesting is not restored with the other fields
ResetFaultKeepsNesting(fault) ==
  [fault EXCEPT !.m_raiseFrame = Null, !.m_raiseOffset = kInvalidOffset,
                !.m_handledCount = 0]

\* the fields restored once the frame's handlers are done with
ResetFault(fault) ==
  [fault EXCEPT !.m_raiseNesting = kInvalidNesting, !.m_raiseFrame = Null,
                !.m_raiseOffset = kInvalidOffset, !.m_handledCount = 0]

PhpBind ==
  /\ AtPhp("Bind")
  /\ calls' = IF Top.fault.m_raiseOffset = kInvalidOffset
              THEN SetTop([Top EXCEPT
                     !.fault = BindFault(Top.fault, Len(m_nestedVMs), vmfp, vmpc),
                     !.discard = TRUE, !.label = "Discard"])
              ELSE SetTop([Top EXCEPT !.discard = FALSE, !.label = "Search"])
  /\ result' = NoResult
  /\ UNCHANGED <<frames, fstate, temps, vmfp, vmpc, m_faults, m_nestedVMs,
                 m_unwindingCppException, m_pendingException, noDestruct,
                 previous, tvRef, throws, entered>>

PhpDiscard ==
  /\ AtPhp("Discard")
  /\ LET r == discardStackTemps(FuncOf(vmfp), temps[vmfp], noDestruct) IN
     /\ temps' = [temps EXCEPT ![vmfp] = r.temps]
     /\ noDestruct' = r.noDestruct
  /\ calls' = SetTop([Top EXCEPT !.label = "Search"])
  /\ result' = NoResult
  /\ UNCHANGED <<frames, fstate, vmfp, vmpc, m_faults, m_nestedVMs,
                 m_unwindingCppException, m_pendingException, previous, tvRef,
                 throws, entered>>

\* faulty variant: the pending host exception is not consulted
SkipHandlersIgnorePending(fp) == fstate[fp].localsDecRefd

\* handler search is skipped for this frame
SkipHandlers(fp) == m_pendingException \/ fstate[fp].localsDecRefd

\* one pass of the inner loop up to its `while (chainFaults(fault))`
SearchHandlers(fp, fault) ==
  LET eh == findEH(FuncOf(fp), fault.m_raiseOffset) IN
  IF SkipHandlers(fp) \/ eh = NoParent
  THEN [action |-> "Propagate", pc |-> Null, eh |-> NoParent, fault |-> fault]
  ELSE checkHandlers(eh, FuncOf(fp), fault)

PhpSearch ==
  /\ AtPhp("Search")
  /\ LET r == SearchHandlers(vmfp, Top.fault) IN
     IF r.action = "ResumeVM"
     THEN /\ m_faults' = ReplaceTop(m_faults, r.fault)
          /\ entered' = ReplaceTop(entered, Append(Last(entered), r.eh))
          /\ vmpc' = r.pc
          /\ calls' = Front(calls)
          /\ result' = [DriverResult("ResumeVM") EXCEPT !.exc = r.fault.m_userException]
     ELSE /\ calls' = SetTop([Top EXCEPT !.fault = r.fault, !.label = "Chain"])
          /\ result' = NoResult
          /\ UNCHANGED <<m_faults, entered, vmpc>>
  /\ UNCHANGED <<frames, fstate, temps, vmfp, m_nestedVMs,
                 m_unwindingCppException, m_pendingException, noDestruct,
                 previous, tvRef, throws>>

PhpChain ==
  /\ AtPhp("Chain")
  /\ LET r == chainFaults(Top.fault, m_faults, previous) IN
     /\ m_faults' = r.faults
     /\ previous' = r.prv
     /\ entered' = IF r.merged
                   THEN Append(Front(Front(entered)), entered[Len(entered) - 1])
                   ELSE entered
     /\ calls' = SetTop([Top EXCEPT
                   !.fault = r.fault,
                   !.label = IF r.merged THEN "Search" ELSE "TearDown"])
  /\ result' = NoResult
  /\ UNCHANGED <<frames, fstate, temps, vmfp, vmpc, m_nestedVMs,
                 m_unwindingCppException, m_pendingException, noDestruct,
                 tvRef, throws>>

PhpTearDown ==
  /\ AtPhp("TearDown")
  /\ LET r == tearDownFrameBegin(vmfp, vmpc, Top.fault.m_userException) IN
     /\ noDestruct' = r.noDestruct
     /\ fstate' = r.fstate
     /\ calls' = SetTop([Top EXCEPT !.label = "Release", !.freeing = r.freeing,
                                    !.ran = FALSE])
  /\ result' = NoResult
  /\ UNCHANGED <<frames, temps, vmfp, vmpc, m_faults, m_nestedVMs,
                 m_unwindingCppException, m_pendingException, previous, tvRef,
                 throws, entered>>

\* the rest of tearDownFrame, and the driver's test of what it returned
PhpRelease ==
  /\ AtPhp("Release")
  /\ LET r == tearDownFrameEnd(vmfp, Top.fault.m_userException)
         a == [Top EXCEPT !.fault.m_userException = r.exc,
                          !.torn = Append(@, vmfp), !.freeing = FALSE]
     IN
     /\ fstate' = r.fstate
     /\ vmfp' = r.fp
     /\ vmpc' = r.pc
     /\ IF r.exc = Null
        THEN /\ m_faults' = Front(m_faults)
             /\ entered' = Front(entered)
             /\ calls' = Front(calls)
             /\ result' = [DriverResult("Consumed") EXCEPT !.torn = a.torn]
        ELSE /\ calls' = SetTop([a EXCEPT !.label = "Reset"])
             /\ result' = NoResult
             /\ UNCHANGED <<m_faults, entered>>
  /\ UNCHANGED <<frames, temps, m_nestedVMs, m_unwindingCppException,
                 m_pendingException, noDestruct, previous, tvRef, throws>>

PhpReset ==
  /\ AtPhp("Reset")
  /\ LET f == ResetFault(Top.fault) IN
     /\ m_faults' = ReplaceTop(m_faults, f)
     /\ entered' = ReplaceTop(entered, <<>>)
     /\ calls' = SetTop([Top EXCEPT
                   !.fault = f,
                   !.label = IF vmfp # Null THEN "Bind" ELSE "Rethrow"])
  /\ result' = NoResult
  /\ UNCHANGED <<frames, fstate, temps, vmfp, vmpc, m_nestedVMs,
                 m_unwindingCppException, m_pendingException, noDestruct,
                 previous, tvRef, throws>>

\* faulty variant: the fault is left on the stack when the throwable is
\* thrown to the host
PhpRethrowKeepsFault ==
  /\ AtPhp("Rethrow")
  /\ result' = DriverResult("Rethrow")
  /\ calls' = CallsAfterRaise
  /\ IF InNested THEN RestoreOuterVM ELSE UNCHANGED <<vmfp, vmpc, m_nestedVMs>>
  /\ UNCHANGED <<frames, fstate, temps, m_unwindingCppException,
                 m_pendingException, noDestruct, previous, tvRef, throws,
                 m_faults, entered>>

\* the end of this nesting's ActRec chain: pop the fault and throw_object
PhpRethrow ==
  /\ AtPhp("Rethrow")
  /\ m_faults' = Front(m_faults)
  /\ entered' = Front(entered)
  /\ result' = DriverResult("Rethrow")
  /\ calls' = CallsAfterRaise
  /\ IF InNested THEN RestoreOuterVM ELSE UNCHANGED <<vmfp, vmpc, m_nestedVMs>>
  /\ UNCHANGED <<frames, fstate, temps, m_unwindingCppException,
                 m_pendingException, noDestruct, previous, tvRef, throws>>

(***************************************************************************)
(* unwindCpp(), one action per block of its loop.                          *)
(***************************************************************************)
AtCpp(label) == calls # <<>> /\ Top.kind = "cpp" /\ Top.label = label

\* faulty variant: an `if` for the `while`, one record at most is dropped
DiscardPendingOne(faults, fp, nesting) ==
  IF faults # <<>> /\ Last(faults).m_raiseFrame = fp
     /\ Last(faults).m_raiseNesting = nesting
  THEN Front(faults)
  ELSE faults

\* "Discard all PHP exceptions pending for this frame"
RECURSIVE DiscardPending(_, _, _)
DiscardPending(faults, fp, nesting) ==
  IF faults # <<>> /\ Last(faults).m_raiseFrame = fp
     /\ Last(faults).m_raiseNesting = nesting
  THEN DiscardPending(Front(faults), fp, nesting)
  ELSE faults

CppLoop ==
  /\ AtCpp("Loop")
  /\ m_faults' = DiscardPending(m_faults, vmfp, Len(m_nestedVMs))
  /\ entered' = SubSeq(entered, 1, Len(m_faults'))
  /\ calls' = SetTop([Top EXCEPT !.label = "Discard"])
  /\ result' = NoResult
  /\ UNCHANGED <<frames, fstate, temps, vmfp, vmpc, m_nestedVMs,
                 m_unwindingCppException, m_pendingException, noDestruct,
                 previous, tvRef, throws>>

\* faulty variant: the frame is torn down with its temporaries in place
CppDiscardSkips ==
  /\ AtCpp("Discard")
  /\ calls' = SetTop([Top EXCEPT !.label = "TearDown"])
  /\ result' = NoResult
  /\ UNCHANGED <<frames, fstate, vmfp, vmpc, m_faults, m_nestedVMs,
                 m_unwindingCppException, m_pendingException, previous, tvRef,
                 throws, entered, temps, noDestruct>>

CppDiscard ==
  /\ AtCpp("Discard")
  /\ LET r == discardStackTemps(FuncOf(vmfp), temps[vmfp], noDestruct) IN
     /\ temps' = [temps EXCEPT ![vmfp] = r.temps]
     /\ noDestruct' = r.noDestruct
  /\ calls' = SetTop([Top EXCEPT !.label = "TearDown"])
  /\ result' = NoResult
  /\ UNCHANGED <<frames, fstate, vmfp, vmpc, m_faults, m_nestedVMs,
                 m_unwindingCppException, m_pendingException, previous, tvRef,
                 throws, entered>>

CppTearDown ==
  /\ AtCpp("TearDown")
  /\ LET r == tearDownFrameBegin(vmfp, vmpc, Null) IN
     /\ noDestruct' = r.noDestruct
     /\ fstate' = r.fstate
     /\ calls' = SetTop([Top EXCEPT !.label = "Release", !.freeing = r.freeing,
                                    !.ran = FALSE])
  /\ result' = NoResult
  /\ UNCHANGED <<frames, temps, vmfp, vmpc, m_faults, m_nestedVMs,
                 m_unwindingCppException, m_pendingException, previous, tvRef,
                 throws, entered>>

CppRelease ==
  /\ AtCpp("Release")
  /\ LET r == tearDownFrameEnd(vmfp, Null) IN
     /\ fstate' = r.fstate
     /\ vmfp' = r.fp
     /\ vmpc' = r.pc
     /\ calls' = SetTop([Top EXCEPT
                   !.fault.m_userException = r.exc,
                   !.torn = Append(@, vmfp), !.freeing = FALSE,
                   !.label = IF r.fp # Null THEN "Loop" ELSE "Rethrow"])
  /\ result' = NoResult
  /\ UNCHANGED <<frames, temps, m_faults, m_nestedVMs,
                 m_unwindingCppException, m_pendingException, noDestruct,
                 previous, tvRef, throws, entered>>

\* faulty variant: unwindCpp without its SCOPE_EXIT
CppRethrowKeepsFlag ==
  /\ AtCpp("Rethrow")
  /\ result' = DriverResult("Rethrow")
  /\ calls' = CallsAfterRaise
  /\ IF InNested
     THEN RestoreOuterVM /\ m_pendingException' = TRUE
     ELSE UNCHANGED <<vmfp, vmpc, m_nestedVMs, m_pendingException>>
  /\ UNCHANGED <<frames, fstate, temps, m_faults, noDestruct, previous, tvRef,
                 throws, entered, m_unwindingCppException>>

\* exception->throwException(), and the SCOPE_EXIT that clears the flag.
\* Out of a destructor the host exception is swallowed and kept as the
\* thread's pending exception.
CppRethrow ==
  /\ AtCpp("Rethrow")
  /\ m_unwindingCppException' = FALSE
  /\ result' = DriverResult("Rethrow")
  /\ calls' = CallsAfterRaise
  /\ IF InNested
     THEN RestoreOuterVM /\ m_pendingException' = TRUE
     ELSE UNCHANGED <<vmfp, vmpc, m_nestedVMs, m_pendingException>>
  /\ UNCHANGED <<frames, fstate, temps, m_faults, noDestruct, previous, tvRef,
                 throws, entered>>

Next ==
  \/ Throw
  \/ UnwindOp
  \/ CatchOp
  \/ HostThrow
  \/ DtorEnter
  \/ DtorReturn
  \/ PhpBind
  \/ PhpDiscard
  \/ PhpSearch
  \/ PhpChain
  \/ PhpTearDown
  \/ PhpRelease
  \/ PhpReset
  \/ PhpRethrow
  \/ CppLoop
  \/ CppDiscard
  \/ CppTearDown
  \/ CppRelease
  \/ CppRethrow

Spec == Init /\ [][Next]_vars


\* A driver is straight-line native code: once called it keeps running.
DriverStep ==
  \/ PhpBind \/ PhpDiscard \/ PhpSearch \/ PhpChain \/ PhpTearDown
  \/ PhpRelease \/ PhpReset \/ PhpRethrow
  \/ CppLoop \/ CppDiscard \/ CppTearDown \/ CppRelease \/ CppRethrow

\* A guest destructor run by the unwinder comes to an end.
DtorStep ==
  /\ m_nestedVMs # <<>>
  /\ (Throw \/ UnwindOp \/ CatchOp \/ HostThrow \/ DtorReturn)

FairSpec == Spec /\ WF_vars(DriverStep) /\ WF_vars(DtorStep)

(***************************************************************************)
(* Vocabulary of the properties.                                           *)
(***************************************************************************)
\* the parentIndex chain that starts at entry eh, innermost first
RECURSIVE ParentChain(_, _)
ParentChain(func, eh) ==
  IF eh = NoParent THEN <<>>
  ELSE <<eh>> \o ParentChain(func, Funcs[func].ehtab[eh].m_parentIndex)

\* the call chain from fp outwards
RECURSIVE FrameChain(_)
FrameChain(fp) == IF fp = Null THEN <<>> ELSE <<fp>> \o FrameChain(frames[fp].sfp)

Bound(fault) == fault.m_raiseOffset # kInvalidOffset

SameRaiseFrame(a, b) ==
  a.m_raiseNesting = b.m_raiseNesting /\ a.m_raiseFrame = b.m_raiseFrame

\* the frame kinds whose teardown absorbs a guest exception
AsyncEager(fp) ==
  ~frames[fp].resumed /\ Funcs[FuncOf(fp)].isAsyncFunction /\ ~frames[fp].fcallAwait

AbsorbsException(fp) ==
  \/ AsyncEager(fp)
  \/ frames[fp].resumed /\ Funcs[FuncOf(fp)].isAsyncFunction
  \/ frames[fp].resumed /\ Funcs[FuncOf(fp)].isAsyncGenerator

PhpActive == \E i \in DOMAIN calls : calls[i].kind = "php"
CppActive == \E i \in DOMAIN calls : calls[i].kind = "cpp"

Returned(driver, outcome) == result.driver = driver /\ result.outcome = outcome


(***************************************************************************)
(* C1.  A guest exception raised at an offset that a protected region of   *)
(* the running frame covers is dispatched inside that frame: when the      *)
(* driver searches handlers for a fault it has just bound to the frame     *)
(* (raise frame and offset are the current ones, no handler entered yet),  *)
(* no host exception is pending and the frame's locals are not released,   *)
(* the driver returns to the interpreter with pc at the handler of the     *)
(* innermost covering region, the frame still live, the stack temporaries  *)
(* of the frame discarded, and the fault left on top of the fault stack    *)
(* with handledCount 1 and raiseFrame, raiseOffset, raiseNesting bound to  *)
(* the frame, the faulting offset and the current nesting.                 *)
(***************************************************************************)
FreshlyBound ==
  /\ AtPhp("Search")
  /\ Top.discard
  /\ Top.fault.m_handledCount = 0
  /\ Top.fault.m_raiseFrame = vmfp
  /\ Top.fault.m_raiseOffset = vmpc

C1_Dispatch ==
  (/\ FreshlyBound
   /\ ~m_pendingException
   /\ ~fstate[vmfp].localsDecRefd
   /\ findEH(FuncOf(vmfp), vmpc) # NoParent)
  => /\ calls' = Front(calls)
     /\ result' = [driver |-> "php", outcome |-> "ResumeVM",
                   exc |-> Top.fault.m_userException, torn |-> Top.torn,
                   fp0 |-> Top.fp0]
     /\ vmpc' = Funcs[FuncOf(vmfp)].ehtab[findEH(FuncOf(vmfp), vmpc)].m_handler
     /\ vmfp' = vmfp
     /\ fstate' = fstate
     /\ fstate[vmfp].ar = "live"
     /\ temps'[vmfp] = <<>>
     /\ Len(m_faults') = Len(m_faults)
     /\ Last(m_faults') =
          [m_userException |-> Top.fault.m_userException,
           m_raiseNesting |-> Len(m_nestedVMs),
           m_raiseFrame |-> vmfp,
           m_raiseOffset |-> vmpc,
           m_handledCount |-> 1]

C1_CaughtInFrame == [][C1_Dispatch]_vars

\* a fault raised in g at 118 below a destructible temporary was dispatched
\* to the innermost of the three regions covering 118
C1_Witness ==
  /\ Returned("php", "ResumeVM")
  /\ result.torn = <<>>
  /\ FuncOf(vmfp) = "g"
  /\ vmpc = 160
  /\ Last(m_faults).m_raiseOffset = 118
  /\ Last(m_faults).m_handledCount = 1
  /\ noDestruct # {}


(***************************************************************************)
(* C2.  Propagation through one frame.  When the guest driver is done with *)
(* the handlers of frame h, h has a caller g and h's kind does not absorb  *)
(* the exception, then the teardown of h releases h's locals, discards its *)
(* ActRec without touching the return slot, and leaves vmfp = g and        *)
(* vmpc = h.m_soff + g's base; next the fault's raiseNesting, raiseFrame   *)
(* and raiseOffset are reset to their invalid values and handledCount to   *)
(* 0, in the driver's copy and on top of the fault stack; and the next     *)
(* pass binds the fault to g, g's resume offset and the current nesting    *)
(* with handledCount 0 before it searches g's handlers.                    *)
(***************************************************************************)
C2_TearDown ==
  (PhpRelease /\ frames[vmfp].sfp # Null /\ ~AbsorbsException(vmfp))
  => LET h == vmfp
         g == frames[h].sfp
     IN /\ vmfp' = g
        /\ vmpc' = frames[h].soff + Funcs[FuncOf(g)].base
        /\ fstate'[h].localsDecRefd
        /\ ~frames[h].resumed => fstate'[h].ar = "discarded"
        /\ fstate'[h].ret = "none"
        /\ Top' = [Top EXCEPT !.label = "Reset", !.torn = Append(Top.torn, h),
                              !.freeing = FALSE]
        /\ m_faults' = m_faults

C2_Reset ==
  AtPhp("Reset")
  => LET f == [m_userException |-> Top.fault.m_userException,
               m_raiseNesting |-> kInvalidNesting,
               m_raiseFrame |-> Null,
               m_raiseOffset |-> kInvalidOffset,
               m_handledCount |-> 0]
     IN /\ Top'.fault = f
        /\ m_faults' = Append(Front(m_faults), f)
        /\ vmfp # Null => Top'.label = "Bind"
        /\ UNCHANGED <<vmfp, vmpc>>

C2_Rebind ==
  (AtPhp("Bind") /\ Top.torn # <<>>)
  => /\ Top'.fault = [m_userException |-> Top.fault.m_userException,
                      m_raiseNesting |-> Len(m_nestedVMs),
                      m_raiseFrame |-> vmfp,
                      m_raiseOffset |-> vmpc,
                      m_handledCount |-> 0]
     /\ vmfp = frames[Last(Top.torn)].sfp
     /\ vmpc = frames[Last(Top.torn)].soff + Funcs[FuncOf(vmfp)].base
     /\ Top'.label = "Discard"

C2_PropagateOneFrame == [][C2_TearDown /\ C2_Reset /\ C2_Rebind]_vars

\* the driver tore down a callee of g that returns to 120 and is about to
\* search g's handlers for the rebound fault
C2_Witness ==
  /\ AtPhp("Search")
  /\ Top.torn # <<>>
  /\ FuncOf(vmfp) = "g"
  /\ vmpc = 120
  /\ fstate[Last(Top.torn)].ar = "discarded"
  /\ Top.fault.m_raiseFrame = vmfp
  /\ Top.fault.m_raiseOffset = 120
  /\ Top.fault.m_handledCount = 0
  /\ Last(m_faults).m_raiseOffset = kInvalidOffset


(***************************************************************************)
(* C3.  Every call of the guest driver terminates, in exactly one of three *)
(* ways: (1) ResumeVM, with pc at a handler of the running frame and the   *)
(* fault kept on top of the fault stack; (2) the exception consumed by the *)
(* wait handle or generator of the frame torn down last, with the fault    *)
(* popped and a normal return; (3) the frame chain of the nesting          *)
(* exhausted (vmfp null), with the fault popped and the guest exception,   *)
(* still live, re-raised to the host.  Each merge by chainFaults shrinks   *)
(* the fault stack by one before the inner loop searches again.            *)
(***************************************************************************)
\* the top activation is a guest driver and this step ends it
PhpReturns == calls # <<>> /\ Top.kind = "php" /\ Len(calls') < Len(calls)

C3_Outcome ==
  /\ PhpReturns =>
       /\ result'.driver = "php"
       /\ result'.outcome \in {"ResumeVM", "Consumed", "Rethrow"}
       /\ result'.outcome = "ResumeVM" =>
            /\ vmfp' = vmfp /\ vmfp # Null
            /\ vmpc' \in HandlerOffs(FuncOf(vmfp))
            /\ Len(m_faults') = Len(m_faults)
            /\ Last(m_faults').m_userException = Top.fault.m_userException
            /\ Last(m_faults').m_handledCount >= 1
            /\ calls' = Front(calls)
       /\ result'.outcome = "Consumed" =>
            /\ AbsorbsException(vmfp)
            /\ Top.fault.m_userException \in
                 {fstate'[vmfp].retExc, fstate'[vmfp].whExc}
            /\ m_faults' = Front(m_faults)
            /\ vmfp' = frames[vmfp].sfp
            /\ calls' = Front(calls)
       /\ result'.outcome = "Rethrow" =>
            /\ vmfp = Null
            /\ m_faults' = Front(m_faults)
            /\ result'.exc = Top.fault.m_userException
            /\ result'.exc # Null
  /\ (AtPhp("Chain") /\ Top'.label = "Search") =>
       Len(m_faults') = Len(m_faults) - 1
  /\ (AtPhp("Chain") /\ Top'.label # "Search") =>
       Top'.label = "TearDown" /\ Len(m_faults') = Len(m_faults)

C3_Terminates ==
  /\ [][C3_Outcome]_vars
  /\ PhpActive ~> ~PhpActive

\* a driver call that merged two faults and then ran out of frames
C3_Witness ==
  /\ Returned("php", "Rethrow")
  /\ Len(result.torn) = MaxDepth
  /\ \E e \in Exceptions : previous[e] # Null


(***************************************************************************)
(* C4.  Async function in eager mode.  When the guest driver tears down a  *)
(* non-resumed frame of an async function that is not in FCallAwait, for a *)
(* guest exception E that found no handler in it, the frame's locals are   *)
(* released, its return slot receives a failed StaticWaitHandle holding E  *)
(* for the caller, the fault is popped, and the driver returns normally:   *)
(* vmfp and vmpc are the caller and its return address, nothing is         *)
(* re-raised and no handler of the caller is searched.                     *)
(***************************************************************************)
C4_Step ==
  (PhpRelease /\ AsyncEager(vmfp))
  => /\ fstate'[vmfp] = [fstate[vmfp] EXCEPT
                           !.ar = "returned",
                           !.ret = "StaticWaitHandleFailed",
                           !.retExc = Top.fault.m_userException]
     /\ fstate[vmfp].localsDecRefd
     /\ Top.fault.m_userException # Null
     /\ m_faults' = Front(m_faults)
     /\ calls' = Front(calls)
     /\ result'.outcome = "Consumed"
     /\ vmfp' = frames[vmfp].sfp
     /\ frames[vmfp].sfp # Null =>
          vmpc' = frames[vmfp].soff + Funcs[FuncOf(frames[vmfp].sfp)].base
     /\ \A f \in FrameIds : f # vmfp => fstate'[f] = fstate[f]

C4_AsyncEager == [][C4_Step]_vars

\* an eager async function called from g at a protected offset failed:
\* the caller resumes at its return address, not at a handler
C4_Witness ==
  /\ Returned("php", "Consumed")
  /\ fstate[Last(result.torn)].ret = "StaticWaitHandleFailed"
  /\ fstate[Last(result.torn)].retExc = result.exc
  /\ vmfp # Null
  /\ FuncOf(vmfp) = "g"
  /\ vmpc = 120
  /\ m_faults = <<>>

(***************************************************************************)
(* C5.  Constructor guard.  When tearDownFrame starts on a frame whose     *)
(* function is the constructor of the class of its receiver, the class has *)
(* a destructor, the caller's call sequence was opened by an FPushCtor*    *)
(* instruction, localsDecRefd is clear and the current opcode is not RetC, *)
(* the receiver is marked no-destruct, and it is marked before the locals  *)
(* are released.  When the current opcode is RetC or localsDecRefd is set, *)
(* the guard marks nothing.                                                *)
(***************************************************************************)
TearDownStarts == PhpTearDown \/ CppTearDown

\* the call that created frame fp is the FCall closing an FPI region of the
\* caller whose push instruction is one of FPushCtor*
CalledByNew(fp) ==
  /\ frames[fp].sfp # Null
  /\ LET caller == FuncOf(frames[fp].sfp)
         ret == frames[fp].soff + Funcs[caller].base
     IN \E i \in DOMAIN Funcs[caller].fpitab :
          /\ Funcs[caller].fpitab[i].m_fpiEndOff = ret - 1
          /\ getOp(caller, Funcs[caller].fpitab[i].m_fpushOff)
               \in {"FPushCtor", "FPushCtorD", "FPushCtorI"}

C5_Step ==
  TearDownStarts =>
    LET fn == Funcs[FuncOf(vmfp)]
        atRet == getOp(FuncOf(vmfp), vmpc) = "RetC"
    IN /\ (/\ fn.cls /\ fn.isCtor /\ fn.clsHasDtor /\ CalledByNew(vmfp)
           /\ ~fstate[vmfp].localsDecRefd /\ ~atRet)
          => noDestruct' = noDestruct \cup {frames[vmfp].this}
       /\ (atRet \/ fstate[vmfp].localsDecRefd) => noDestruct' = noDestruct

\* while the locals of a frame are being released, the guard has acted
C5_MarkedBeforeRelease ==
  (/\ calls # <<>>
   /\ Top.kind \in {"php", "cpp"}
   /\ Top.label = "Release"
   /\ Top.freeing
   /\ Funcs[FuncOf(vmfp)].cls
   /\ Funcs[FuncOf(vmfp)].isCtor
   /\ Funcs[FuncOf(vmfp)].clsHasDtor
   /\ CalledByNew(vmfp)
   /\ getOp(FuncOf(vmfp), vmpc) # "RetC")
  => frames[vmfp].this \in noDestruct

C5_ConstructorGuard == [][C5_Step]_vars /\ []C5_MarkedBeforeRelease

\* the receiver of a constructor called through FPushCtorD was marked, and
\* the frame's locals are about to be released
C5_Witness ==
  /\ calls # <<>>
  /\ Top.label = "Release"
  /\ Top.freeing
  /\ FuncOf(vmfp) = "ctor"
  /\ CalledByNew(vmfp)
  /\ frames[vmfp].this \in noDestruct


(***************************************************************************)
(* C6.  Chained exception.                                                 *)
(***************************************************************************)
\* the record beneath the top one
Beneath == m_faults[Len(m_faults) - 1]

\* the record beneath the top one was dispatched to a Catch handler
BeneathInCatch ==
  /\ entered[Len(entered) - 1] # <<>>
  /\ Funcs[FuncOf(Beneath.m_raiseFrame)]
       .ehtab[Last(entered[Len(entered) - 1])].m_type = "Catch"

RECURSIVE PreviousChain(_, _)
PreviousChain(exc, seen) ==
  IF exc = Null \/ exc \in seen THEN seen
  ELSE PreviousChain(previous[exc], seen \cup {exc})

\* C6, amended: the driver invoked for E2 merges only when handler search
\* for E2 at its own raise offset has found nothing (no region covers the
\* offset, its entries are used up, or search is skipped).  The merge then
\* replaces the two records by one that carries E2 with the raiseOffset and
\* handledCount E1 had, and search goes on outward from E1's handler;
\* E2.previous becomes E1 when E2's previous slot was unset and E2 is not
\* on E1's previous chain.  When a region covers E2's raise offset, E2 is
\* dispatched to its handler and both records stay on the stack.
C6_Step ==
  /\ (PhpChain /\ Len(m_faults) >= 2 /\ SameRaiseFrame(Top.fault, Beneath))
     => LET e2 == Top.fault.m_userException
            e1 == Beneath.m_userException
            merged == [m_userException |-> e2,
                       m_raiseNesting |-> Beneath.m_raiseNesting,
                       m_raiseFrame |-> Beneath.m_raiseFrame,
                       m_raiseOffset |-> Beneath.m_raiseOffset,
                       m_handledCount |-> Beneath.m_handledCount]
        IN /\ m_faults' = Append(SubSeq(m_faults, 1, Len(m_faults) - 2), merged)
           /\ Top'.fault = merged
           /\ Top'.label = "Search"
           /\ (previous[e2] = Null /\ e2 \notin PreviousChain(e1, {}))
              => previous' = [previous EXCEPT ![e2] = e1]
           /\ \A e \in Exceptions : previous[e] # Null => previous'[e] = previous[e]
  /\ (PhpChain /\ ~(Len(m_faults) >= 2 /\ SameRaiseFrame(Top.fault, Beneath)))
     => /\ m_faults' = Append(Front(m_faults), Top.fault)
        /\ previous' = previous
        /\ Top'.label = "TearDown"
  /\ (PhpSearch /\ FreshlyBound /\ ~SkipHandlers(vmfp)
      /\ findEH(FuncOf(vmfp), vmpc) # NoParent)
     => /\ result'.outcome = "ResumeVM"
        /\ Front(m_faults') = Front(m_faults)
        /\ previous' = previous

ChainAt(fault) ==
  ParentChain(FuncOf(fault.m_raiseFrame),
              findEH(FuncOf(fault.m_raiseFrame), fault.m_raiseOffset))

C7_ReentryOrder ==
  /\ \A i \in DOMAIN m_faults :
       IF Bound(m_faults[i])
       THEN /\ m_faults[i].m_handledCount = Len(entered[i])
            /\ Len(entered[i]) <= Len(ChainAt(m_faults[i]))
            /\ entered[i] = SubSeq(ChainAt(m_faults[i]), 1, Len(entered[i]))
            /\ \A j, k \in DOMAIN entered[i] :
                 j # k => entered[i][j] # entered[i][k]
       ELSE entered[i] = <<>>
  /\ (AtPhp("TearDown") /\ ~SkipHandlers(vmfp))
     => Top.fault.m_handledCount = Len(ChainAt(Top.fault))

\* the fault raised in g at 118 re-entered the driver twice and has now
\* reached the third, outermost entry of its chain
C7_Witness ==
  /\ Returned("php", "ResumeVM")
  /\ Last(entered) = <<2, 1, 0>>
  /\ vmpc = 140
  /\ Last(m_faults).m_handledCount = 3


(***************************************************************************)
(* C8.  Host exceptions trump guest exceptions.                            *)
(***************************************************************************)
\* C8 as stated: a run of the guest driver that happens while
\* m_unwindingCppException is set never signals ResumeVM and never sets pc
\* to a handler offset.
C8_FlagDisablesSearch ==
  Returned("php", "ResumeVM") => ~m_unwindingCppException

\* C8, amended: what disables handler search is the thread's pending host
\* exception (ThreadInfo::m_pendingException), not m_unwindingCppException:
\* a run of the guest driver never signals ResumeVM while a host exception
\* is pending, and passes over every frame's handlers instead; while only
\* m_unwindingCppException is set (a destructor run by unwindCpp raises a
\* guest exception) the guest driver still enters handlers.
C8_Step ==
  (PhpSearch /\ m_pendingException)
  => /\ result' = NoResult
     /\ vmpc' = vmpc
     /\ m_faults' = m_faults
     /\ Top' = [Top EXCEPT !.label = "Chain"]

C8_PendingDisablesSearch ==
  /\ [][C8_Step]_vars
  /\ [](Returned("php", "ResumeVM") => ~m_pendingException)

\* with a host exception pending, the driver passed over a region covering
\* the raise offset of a frame whose locals are still live
C8_Witness ==
  /\ AtPhp("Chain")
  /\ m_pendingException
  /\ ~fstate[vmfp].localsDecRefd
  /\ Top.fault.m_handledCount = 0
  /\ findEH(FuncOf(vmfp), Top.fault.m_raiseOffset) # NoParent

(***************************************************************************)
(* C9.  Host driver end state.  unwindCpp tears down every frame of the    *)
(* nesting it was called in, innermost first, never resumes the VM at a    *)
(* handler, gets a null exception from every tearDownFrame, and ends by    *)
(* re-raising the host exception with vmfp null; m_unwindingCppException   *)
(* is set exactly while unwindCpp is active, so it is set throughout the   *)
(* walk and clear again once unwindCpp has exited.                         *)
(***************************************************************************)
C9_Flag == m_unwindingCppException <=> CppActive

C9_Walk ==
  \A i \in DOMAIN calls :
    calls[i].kind = "cpp" =>
      /\ calls[i].fault.m_userException = Null
      /\ calls[i].torn =
           SubSeq(FrameChain(calls[i].fp0), 1, Len(calls[i].torn))
      /\ calls[i].label = "Rethrow" =>
           /\ calls[i].torn = FrameChain(calls[i].fp0)
           /\ i = Len(calls) => vmfp = Null

C9_End ==
  result.driver = "cpp" =>
    /\ result.outcome = "Rethrow"
    /\ result.exc = Null
    /\ result.torn = FrameChain(result.fp0)
    /\ \A f \in DOMAIN result.torn : fstate[result.torn[f]].localsDecRefd
                                     \/ frames[result.torn[f]].resumed

C9_HostDriver == C9_Flag /\ C9_Walk /\ C9_End

\* unwindCpp, called in the inner frame of a chain of MaxDepth frames, has
\* left by re-raising; a fault pinned to a frame on its way was discarded
C9_Witness ==
  /\ result.driver = "cpp"
  /\ calls = <<>>
  /\ Len(result.torn) = MaxDepth
  /\ vmfp = Null
  /\ throws > 0
  /\ m_faults = <<>>
  /\ ~m_unwindingCppException


(***************************************************************************)
(* C10.  Host exception during destructor.                                 *)
(***************************************************************************)
\* a host exception has just left a destructor that the release of a
\* frame's locals had run
HostExceptionOutOfRelease ==
  /\ result.driver = "cpp"
  /\ calls # <<>>
  /\ Top.label = "Release"
  /\ Top.ran

\* C10 as stated: the teardown is aborted and goes on by host propagation,
\* unwindCpp being active for the frame and its callers.
C10_HostPropagation ==
  HostExceptionOutOfRelease => (m_unwindingCppException /\ Top.kind = "cpp")

\* C10, amended: a host exception raised by a destructor that runs while
\* tearDownFrame releases the locals of frame f is swallowed at the release
\* (the catch-all around frame_free_locals_unwind).  unwindCpp has unwound
\* the destructor's own nesting only and is not active afterwards; no fault
\* is released; tearDownFrame completes the teardown of f, and the guest
\* driver that called it goes on with f's caller.
C10_Step ==
  /\ (/\ CppRethrow
      /\ InNested
      /\ calls[Len(calls) - 2].kind = "php"
      /\ calls[Len(calls) - 2].label = "Release")
     => /\ calls' = SubSeq(calls, 1, Len(calls) - 2)
        /\ ~m_unwindingCppException'
        /\ m_faults' = m_faults
        /\ vmfp' = Last(m_nestedVMs).fp
        /\ fstate' = fstate
  /\ (HostExceptionOutOfRelease /\ Top.kind = "php")
     => /\ PhpRelease
        /\ vmfp' = frames[vmfp].sfp
        /\ fstate'[vmfp].ar # "live" \/ frames[vmfp].resumed
        /\ ~m_unwindingCppException'

C10_Continues ==
  (HostExceptionOutOfRelease /\ Top.kind = "php")
  => /\ ~m_unwindingCppException
     /\ ~CppActive
     /\ fstate[vmfp].localsDecRefd
     /\ Len(m_faults) > Top.fbase
     /\ Last(m_faults).m_userException = Top.fault.m_userException

C10_SwallowedAtRelease == [][C10_Step]_vars /\ []C10_Continues

\* the locals of h, torn down by the guest driver, held an object whose
\* destructor raised a host exception; the driver is about to go on
C10_Witness ==
  /\ HostExceptionOutOfRelease
  /\ Top.kind = "php"
  /\ FuncOf(vmfp) = "h"
  /\ frames[vmfp].sfp # Null
  /\ m_faults # <<>>


(***************************************************************************)
(* C11.  Release of the locals.                                            *)
(***************************************************************************)
Range(s) == {s[j] : j \in DOMAIN s}

\* the frames tearDownFrame has returned from, for the drivers still active
\* and for the one that returned last; nullExc: torn down by unwindCpp
TornBy(nullExc) ==
  UNION {Range(calls[i].torn) :
           i \in {k \in DOMAIN calls :
                    calls[k].kind = (IF nullExc THEN "cpp" ELSE "php")}}
  \cup (IF result.driver = (IF nullExc THEN "cpp" ELSE "php")
        THEN Range(result.torn) ELSE {})

\* C11 as stated: localsDecRefd is set on every frame tearDownFrame has
\* returned from, whatever its kind and whether the exception was null,
\* and frame_free_locals_unwind ran at most once on each frame.
C11_AlwaysReleased ==
  /\ \A f \in TornBy(TRUE) \cup TornBy(FALSE) : fstate[f].localsDecRefd
  /\ \A f \in FrameIds : fstate[f].frees <= 1

\* a resumed async function or async generator that is not executing: its
\* wait handle is not running (and the generator was not started eagerly)
Suspended(f) ==
  /\ frames[f].resumed
  /\ Funcs[FuncOf(f)].isAsyncFunction \/ Funcs[FuncOf(f)].isAsyncGenerator
  /\ fstate[f].wh = "blocked"

\* C11, amended: localsDecRefd is set when tearDownFrame returns, except
\* for a resumed async function whose wait handle is not running and a
\* resumed async generator that is neither eagerly executed nor running,
\* torn down with a null exception by unwindCpp: tearDownFrame leaves those
\* frames as they are and releases nothing.  frame_free_locals_unwind runs
\* at most once per frame, and only with localsDecRefd set first.
C11_ReleasedOnce ==
  /\ \A f \in TornBy(FALSE) : fstate[f].localsDecRefd
  /\ \A f \in TornBy(TRUE) :
       IF Suspended(f)
       THEN ~fstate[f].localsDecRefd /\ fstate[f].frees = 0
       ELSE fstate[f].localsDecRefd
  /\ \A f \in FrameIds :
       /\ fstate[f].frees <= 1
       /\ fstate[f].frees = 1 => fstate[f].localsDecRefd

\* unwindCpp went through a suspended async frame and its caller: the first
\* was left alone, the locals of the second were released once
C11_Witness ==
  /\ Returned("cpp", "Rethrow")
  /\ Len(result.torn) = 2
  /\ Suspended(result.torn[1])
  /\ ~fstate[result.torn[1]].localsDecRefd
  /\ fstate[result.torn[2]].localsDecRefd
  /\ fstate[result.torn[2]].frees = 1


(***************************************************************************)
(* C12.  discardStackTemps.  Every pre-live ActRec it pops whose FPush*    *)
(* instruction is one of FPushCtor* has its receiver marked no-destruct by *)
(* the time it is popped; pre-live ActRecs pushed by other instructions    *)
(* are popped without a mark; nothing else is marked; and when             *)
(* discardStackTemps returns the frame's evaluation stack holds neither    *)
(* temporaries nor pre-live ActRecs.  The walk goes from the top, and      *)
(* stops only to run the destructor of a value it has just popped.         *)
(***************************************************************************)
\* a step of discardStackTemps: a whole call, or the part of a call up to
\* the destructor of a popped value
DisposerStep ==
  \/ PhpDiscard
  \/ CppDiscard
  \/ DtorEnter /\ Top.label = "Discard"

PushedByNew(func, e) ==
  /\ e.k = "AR"
  /\ getOp(func, e.pushOff) \in {"FPushCtor", "FPushCtorD", "FPushCtorI"}

C12_Step ==
  DisposerStep =>
    LET old == temps[vmfp]
        new == temps'[vmfp]
        popped == {old[j] : j \in (Len(new) + 1)..Len(old)}
    IN /\ Len(new) <= Len(old)
       /\ new = SubSeq(old, 1, Len(new))
       /\ \A f \in FrameIds : f # vmfp => temps'[f] = temps[f]
       /\ noDestruct' = noDestruct
            \cup {e.this : e \in {x \in popped : PushedByNew(FuncOf(vmfp), x)}}
       /\ \A e \in popped :
            (e.k = "AR" /\ ~PushedByNew(FuncOf(vmfp), e))
            => (e.this \in noDestruct' <=> e.this \in noDestruct)
       /\ (PhpDiscard \/ CppDiscard) => new = <<>>
       /\ DtorEnter => (Len(new) < Len(old) /\ old[Len(new) + 1].dtor)

C12_TemporaryDisposer == [][C12_Step]_vars

\* discardStackTemps has returned in g, raised at 118 inside `new C`: the
\* pre-live ActRec is popped and its receiver marked
C12_Witness ==
  /\ calls # <<>>
  /\ Top.kind \in {"php", "cpp"}
  /\ Top.label \in {"Search", "TearDown"}
  /\ FuncOf(vmfp) = "g"
  /\ vmpc = 118
  /\ temps[vmfp] = <<>>
  /\ (10 + vmfp) \in noDestruct


(***************************************************************************)
(* C13.  chainFaultObjects on arbitrary `previous` graphs, cyclic ones     *)
(* included (guest code can store any throwable in a previous slot).       *)
(***************************************************************************)
\* throwables of the heap chainFaultObjects is tried on
NumChainExc == 3

ChainExc == 1..NumChainExc

ChainInit ==
  /\ previous \in [ChainExc -> ChainExc \cup {Null}]
  /\ result = NoResult
  /\ frames = <<>> /\ fstate = <<>> /\ temps = <<>>
  /\ vmfp = Null /\ vmpc = Null
  /\ m_faults = <<>> /\ m_nestedVMs = <<>>
  /\ m_unwindingCppException = FALSE /\ m_pendingException = FALSE
  /\ noDestruct = {} /\ tvRef = FALSE
  /\ calls = <<>> /\ throws = 0 /\ entered = <<>>

\* chainFaultObjects(top, prev); result keeps the arguments, the slots
\* before the call and whether prev's reference was given up
ChainMerge ==
  /\ \E top \in ChainExc, prev \in ChainExc :
       /\ previous' = chainFaultObjects(top, prev, previous)
       /\ result' = [driver |-> "chainFaultObjects", top |-> top,
                     prev |-> prev, before |-> previous,
                     released |-> releasesPrev(top, prev, previous)]
  /\ UNCHANGED <<frames, fstate, temps, vmfp, vmpc, m_faults, m_nestedVMs,
                 m_unwindingCppException, m_pendingException, noDestruct,
                 tvRef, calls, throws, entered>>

ChainNext == ChainMerge

ChainSpec == ChainInit /\ [][ChainNext]_vars

\* the objects reached from e along the slots m, e included
RECURSIVE ChainSet(_, _, _)
ChainSet(e, m, seen) ==
  IF e = Null \/ e \in seen THEN seen ELSE ChainSet(m[e], m, seen \cup {e})

\* the walk from e along m comes back to an object it has visited
Revisits(e, m) == \A x \in ChainSet(e, m, {}) : m[x] # Null

\* the object on e's chain whose slot is unset
EndOf(e, m) == CHOOSE x \in ChainSet(e, m, {}) : m[x] = Null

\* C13: if the previous chain of top or of prev revisits a node, or the two
\* chains share a node, no slot is written and prev's reference is given
\* up; otherwise prev is stored in the first unset slot of top's chain,
\* the reference is kept, and the chain from top is acyclic and runs
\* through prev's chain.  No call turns an acyclic chain into a cyclic one.
C13_NoCycle ==
  result.driver = "chainFaultObjects" =>
    LET m == result.before
        top == result.top
        prev == result.prev
        bad == \/ Revisits(top, m)
               \/ Revisits(prev, m)
               \/ ChainSet(top, m, {}) \cap ChainSet(prev, m, {}) # {}
    IN /\ IF bad
          THEN previous = m /\ result.released
          ELSE /\ previous = [m EXCEPT ![EndOf(top, m)] = prev]
               /\ ~result.released
               /\ ~Revisits(top, previous)
               /\ ChainSet(top, previous, {}) =
                    ChainSet(top, m, {}) \cup ChainSet(prev, m, {})
       /\ \A e \in ChainExc : ~Revisits(e, m) => ~Revisits(e, previous)

\* two separate acyclic chains of length two and one were joined
C13_Witness ==
  /\ result.driver = "chainFaultObjects"
  /\ ~result.released
  /\ result.before[result.top] # Null
  /\ previous # result.before
  /\ Cardinality(ChainSet(result.top, previous, {})) = 3

\* the chains shared a node, so nothing was linked
C13_WitnessShared ==
  /\ result.driver = "chainFaultObjects"
  /\ result.released
  /\ ~Revisits(result.top, result.before)
  /\ ~Revisits(result.prev, result.before)



(***************************************************************************)
(* C14.  Guest exception during destructor.                                *)
(***************************************************************************)
\* a guest exception has just left a destructor that the release of a
\* frame's locals had run
GuestExceptionOutOfRelease ==
  /\ Returned("php", "Rethrow")
  /\ calls # <<>>
  /\ Top.label = "Release"
  /\ Top.ran

\* C14: a guest exception that leaves a destructor run by the release of a
\* frame's locals is swallowed there: the fault stack is again what it was
\* when the destructor was entered, the releasing driver and its fault are
\* unchanged, the registers are those of the frame being torn down, and
\* nothing is recorded as pending; the teardown then pops the frame and
\* moves (fp, pc) to the caller, as it does after a destructor that returned.
C14_Step ==
  /\ (/\ PhpRethrow
      /\ InNested
      /\ calls[Len(calls) - 2].label = "Release")
     => /\ calls' = SubSeq(calls, 1, Len(calls) - 2)
        /\ m_faults' = SubSeq(m_faults, 1, calls[Len(calls) - 1].fbase)
        /\ Len(m_faults) = calls[Len(calls) - 1].fbase + 1
        /\ vmfp' = Last(m_nestedVMs).fp
        /\ vmpc' = Last(m_nestedVMs).pc
        /\ fstate' = fstate
        /\ m_pendingException' = m_pendingException
        /\ m_unwindingCppException' = m_unwindingCppException
  /\ GuestExceptionOutOfRelease
     => /\ PhpRelease \/ CppRelease
        /\ vmfp' = frames[vmfp].sfp
        /\ vmpc' = IF frames[vmfp].sfp = Null THEN Null ELSE prevOff(vmfp)
        /\ fstate'[vmfp].ar # "live" \/ frames[vmfp].resumed
        /\ fstate'[vmfp].frees = fstate[vmfp].frees
        /\ previous' = previous
        /\ (calls' # <<>> /\ Len(calls') = Len(calls) /\ Top.kind = "php")
           => /\ m_faults' = m_faults
              /\ calls'[Len(calls')].fault.m_userException
                   \in {Top.fault.m_userException, Null}

C14_FaultKept ==
  (GuestExceptionOutOfRelease /\ Top.kind = "php")
  => /\ Len(m_faults) > Top.fbase
     /\ Last(m_faults) = Top.fault
     /\ fstate[vmfp].localsDecRefd

C14_SwallowedAtRelease == [][C14_Step]_vars /\ []C14_FaultKept

\* the locals of a frame with a caller, torn down by the guest driver, held
\* an object whose destructor raised a guest exception it did not catch
C14_Witness ==
  /\ GuestExceptionOutOfRelease
  /\ Top.kind = "php"
  /\ frames[vmfp].sfp # Null
  /\ Last(m_faults).m_userException # result.exc



C15_WitnessHost == CppActive /\ m_faults = <<>> /\ Top.kind = "cpp"



(***************************************************************************)
(* C16.  The raise fields of a fault.                                      *)
(***************************************************************************)
\* m_raiseNesting, m_raiseFrame and m_raiseOffset are all set or all unset
RaiseFieldsAgree(fault) ==
  /\ (fault.m_raiseNesting # kInvalidNesting) <=> Bound(fault)
  /\ (fault.m_raiseFrame # Null) <=> Bound(fault)

\* C16: in every record of the fault stack and in every driver's local
\* copy, raiseNesting is bound iff raiseOffset is bound iff raiseFrame is
\* bound, whatever binds, merges, resets and write-backs came before; an
\* unbound record has examined no handler.
C16_RaiseFieldsTogether ==
  /\ \A j \in DOMAIN m_faults :
       /\ RaiseFieldsAgree(m_faults[j])
       /\ ~Bound(m_faults[j]) => m_faults[j].m_handledCount = 0
  /\ \A i \in DOMAIN calls : RaiseFieldsAgree(calls[i].fault)

\* a fault bound in a handler has been merged with the record beneath it
\* and took over its offset and handled count
C16_Witness ==
  /\ AtPhp("Search")
  /\ Top.discard
  /\ Bound(Top.fault)
  /\ Top.fault.m_handledCount >= 1
  /\ previous[Top.fault.m_userException] # Null
  /\ Last(m_faults) = Top.fault



(***************************************************************************)
(* C17.  Teardown ordering.                                                *)
(***************************************************************************)
\* a step of a driver that releases temporaries, locals or the frame record
TeardownStep ==
  \/ PhpDiscard \/ CppDiscard
  \/ DtorEnter
  \/ PhpTearDown \/ CppTearDown
  \/ PhpRelease \/ CppRelease

\* the step changes the temporaries, the locals or the record of frame f
\* (the frame a destructor is about to run in is set up, not torn down)
Touches(f) ==
  \/ temps'[f] # temps[f]
  \/ /\ fstate'[f] # fstate[f]
     /\ ~(Len(m_nestedVMs') > Len(m_nestedVMs) /\ f = vmfp')

\* the frames the top driver walked before it came to frame f
InnerOf(f) ==
  {x \in Range(FrameChain(Top.fp0)) : x # f /\ f \in Range(FrameChain(x))}

\* tearDownFrame is done with frame x
Dismantled(x) ==
  /\ x \in Range(Top.torn)
  /\ temps[x] = <<>>
  /\ frames[x].resumed \/ fstate[x].ar # "live"
  /\ fstate[x].localsDecRefd \/ Suspended(x)

\* C17: for both drivers, the locals of a frame are released only once its
\* temporaries are gone, and its record is popped only once its locals are
\* released; a driver touches the temporaries, locals or record of the
\* current frame only, and by then every frame it walked before, all inner
\* to the current one, is dismantled.
C17_Step ==
  /\ TearDownStarts => temps[vmfp] = <<>>
  /\ (TeardownStep /\ fstate'[vmfp].frees > fstate[vmfp].frees)
     => (temps[vmfp] = <<>> /\ fstate[vmfp].ar = "live")
  /\ (TeardownStep /\ fstate'[vmfp].ar # fstate[vmfp].ar)
     => /\ PhpRelease \/ CppRelease
        /\ temps[vmfp] = <<>>
        /\ fstate[vmfp].localsDecRefd
  /\ TeardownStep
     => \A f \in FrameIds :
          Touches(f) => /\ f = vmfp
                        /\ f \in Range(FrameChain(Top.fp0))
                        /\ \A x \in InnerOf(f) : Dismantled(x)

ResolvedAfter(skip) ==
  LET func == FuncOf(vmfp)
      fault == Top.fault
      chain == ParentChain(func, findEH(func, fault.m_raiseOffset))
      r == checkHandlers(findEH(func, fault.m_raiseOffset), func, fault)
  IN IF skip < Len(chain)
     THEN /\ r.action = "ResumeVM"
          /\ r.eh = chain[skip + 1]
          /\ r.pc = Funcs[func].ehtab[chain[skip + 1]].m_handler
          /\ r.fault = [fault EXCEPT !.m_handledCount = @ + 1]
          /\ vmpc' = r.pc
          /\ Last(m_faults') = r.fault
          /\ Len(calls') = Len(calls) - 1
          /\ result'.outcome = "ResumeVM"
     ELSE /\ r.action = "Propagate"
          /\ r.fault = fault
          /\ vmpc' = vmpc
          /\ calls'[Len(calls')].label = "Chain"

\* the handler search of this step consults checkHandlers
Resolves ==
  /\ PhpSearch
  /\ ~SkipHandlers(vmfp)
  /\ findEH(FuncOf(vmfp), Top.fault.m_raiseOffset) # NoParent

MaxFaults == 3

\* a record bound by some driver, for the i-th throwable raised
BoundFaults(i) ==
  {[m_userException |-> ((i - 1) % NumExc) + 1, m_raiseNesting |-> n,
    m_raiseFrame |-> f, m_raiseOffset |-> o, m_handledCount |-> h] :
     n \in {0, 1}, f \in {1, 2}, o \in {5, 9}, h \in {0, 1}}

MergeInit ==
  \E len \in 1..MaxFaults :
    \E fault \in BoundFaults(len), stale \in BOOLEAN :
      \E rest \in [1..(len - 1) -> UNION {BoundFaults(i) : i \in 1..MaxFaults}] :
        /\ \A i \in 1..(len - 1) : rest[i] \in BoundFaults(i)
        /\ m_faults = Append(rest, IF stale THEN NewFault(fault.m_userException)
                                   ELSE fault)
        /\ calls = <<Activation("php", "Chain", fault, fault.m_raiseFrame, 0)>>
        /\ entered = [i \in 1..len |-> <<>>]
        /\ vmfp = fault.m_raiseFrame
        /\ vmpc = fault.m_raiseOffset
        /\ frames = [f \in FrameIds |->
                       MkFrame(f, DtorKind, IF f = 2 THEN 1 ELSE Null, 7)]
        /\ fstate = [f \in FrameIds |-> FreshFState(DtorKind)]
        /\ temps = [f \in FrameIds |-> <<>>]
        /\ m_nestedVMs = <<>>
        /\ m_unwindingCppException = FALSE
        /\ m_pendingException = FALSE
        /\ noDestruct = {}
        /\ previous = [e \in Exceptions |-> Null]
        /\ tvRef = FALSE
        /\ throws = 0
        /\ result = NoResult

MergeNext == PhpChain

MergeSpec == MergeInit /\ [][MergeNext]_vars

\* C19: chainFaults merges iff a record lies immediately beneath the top one
\* with the same (raiseNesting, raiseFrame) as the driver's copy.  On a
\* merge the copy adopts that record's raiseOffset and handledCount, the
\* top two records are replaced by the merged one (one record fewer) and
\* true is returned; otherwise the stack keeps its size, its top is the
\* driver's copy and false is returned.  No record below is changed.
C19_Step ==
  PhpChain =>
    LET n == Len(m_faults)
        fault == Top.fault
        after == calls'[Len(calls')]
    IN IF n >= 2 /\ SameRaiseFrame(fault, Beneath)
       THEN /\ after.label = "Search"
            /\ after.fault = [fault EXCEPT
                                !.m_raiseOffset = Beneath.m_raiseOffset,
                                !.m_handledCount = Beneath.m_handledCount]
            /\ Len(m_faults') = n - 1
            /\ Last(m_faults') = after.fault
            /\ SubSeq(m_faults', 1, n - 2) = SubSeq(m_faults, 1, n - 2)
       ELSE /\ after.label = "TearDown"
            /\ after.fault = fault
            /\ Len(m_faults') = n
            /\ Last(m_faults') = fault
            /\ SubSeq(m_faults', 1, n - 1) = SubSeq(m_faults, 1, n - 1)
            /\ previous' = previous

C19_Chainer == [][C19_Step]_vars

\* the top two of three records were merged: the driver searches again
\* with the offset and count of the record that was beneath
C19_Witness ==
  /\ AtPhp("Search")
  /\ Len(m_faults) = 2
  /\ Last(m_faults) = Top.fault
  /\ Top.fault.m_handledCount = 1
  /\ previous[Top.fault.m_userException] # Null
  /\ ~SameRaiseFrame(Top.fault, m_faults[1])



(***************************************************************************)
(* C20.  What tearDownFrame returns, by the kind of the frame.             *)
(***************************************************************************)
TearDownKinds ==
  {"RegularNotResumed", "AsyncEager", "AsyncInAwait", "AsyncResumed",
   "AsyncGenResumed", "NonAsyncGenResumed"}

\* the branches of tearDownFrame
IsKind(fp, kind) ==
  LET fn == Funcs[FuncOf(fp)]
      resumed == frames[fp].resumed
  IN CASE kind = "RegularNotResumed" -> ~resumed /\ ~fn.isAsyncFunction
       [] kind = "AsyncEager" ->
            ~resumed /\ fn.isAsyncFunction /\ ~frames[fp].fcallAwait
       [] kind = "AsyncInAwait" ->
            ~resumed /\ fn.isAsyncFunction /\ frames[fp].fcallAwait
       [] kind = "AsyncResumed" -> resumed /\ fn.isAsyncFunction
       [] kind = "AsyncGenResumed" ->
            resumed /\ ~fn.isAsyncFunction /\ fn.isAsyncGenerator
       [] kind = "NonAsyncGenResumed" ->
            /\ resumed /\ ~fn.isAsyncFunction /\ ~fn.isAsyncGenerator
            /\ fn.isNonAsyncGenerator

Consuming == {"AsyncEager", "AsyncResumed", "AsyncGenResumed"}

\* every frame of the call chain is of exactly one kind, and tearDownFrame
\* returns null for a null exception, null for a guest exception in a frame
\* of a consuming kind, and the exception itself otherwise
C20_Returns ==
  \A fp \in FrameIds :
    /\ Cardinality({k \in TearDownKinds : IsKind(fp, k)}) = 1
    /\ tearDownFrameEnd(fp, Null).exc = Null
    /\ \A e \in Exceptions :
         tearDownFrameEnd(fp, e).exc =
           IF \E k \in Consuming : IsKind(fp, k) THEN Null ELSE e

\* the drivers: unwindPhp returns right after the teardown of a frame of a
\* consuming kind and goes on to the caller with the same exception after
\* any other; unwindCpp, which passes null, gets null back
C20_Step ==
  /\ PhpRelease
     => IF \E k \in Consuming : IsKind(vmfp, k)
        THEN /\ calls' = Front(calls)
             /\ result'.outcome = "Consumed"
             /\ m_faults' = Front(m_faults)
        ELSE /\ calls'[Len(calls')].label = "Reset"
             /\ calls'[Len(calls')].fault.m_userException =
                  Top.fault.m_userException
             /\ Top.fault.m_userException # Null
             /\ m_faults' = m_faults
  /\ CppRelease
     => /\ calls'[Len(calls')].fault.m_userException = Null
        /\ m_faults' = m_faults

\* C20: tearDownFrame classifies each frame into exactly one kind; given a
\* guest exception it returns null exactly for AsyncEager, AsyncResumed and
\* AsyncGenResumed frames and the exception unchanged for RegularNotResumed,
\* AsyncInAwait and NonAsyncGenResumed frames; given null it returns null.
C20_Classification == []C20_Returns /\ [][C20_Step]_vars

\* the guest exception went unchanged through the frame of a non-async
\* generator or of an async function called with await
C20_Witness ==
  /\ AtPhp("Reset")
  /\ Top.torn # <<>>
  /\ \/ IsKind(Last(Top.torn), "NonAsyncGenResumed")
     \/ IsKind(Last(Top.torn), "AsyncInAwait")
  /\ Top.fault.m_userException # Null
  /\ Top.fault.m_userException = Last(m_faults).m_userException



(***************************************************************************)
(* C21.  Resumed async frames under a host exception.                      *)
(***************************************************************************)
ResumedAsyncFunction(f) ==
  frames[f].resumed /\ Funcs[FuncOf(f)].isAsyncFunction

ResumedAsyncGenerator(f) ==
  /\ frames[f].resumed
  /\ ~Funcs[FuncOf(f)].isAsyncFunction
  /\ Funcs[FuncOf(f)].isAsyncGenerator

\* C21 as stated: every resumed async frame torn down with a null exception
\* has its locals released and its wait handle or generator failed (and the
\* wait handle of an async function released); no resumed async frame is
\* torn down and left in a non-failed state.
C21_AlwaysFailed ==
  /\ \A f \in TornBy(TRUE) :
       /\ ResumedAsyncFunction(f)
          => /\ fstate[f].localsDecRefd
             /\ fstate[f].wh = "failedCpp"
             /\ fstate[f].whReleased
       /\ ResumedAsyncGenerator(f)
          => /\ fstate[f].localsDecRefd
             /\ fstate[f].wh = "failedCpp"
  /\ \A f \in TornBy(TRUE) \cup TornBy(FALSE) :
       (ResumedAsyncFunction(f) \/ ResumedAsyncGenerator(f))
       => fstate[f].wh \in {"failed", "failedCpp"}

\* the frames unwindCpp has torn down: a resumed async function whose wait
\* handle was running, a resumed async generator that was running or
\* eagerly executed, have their locals released and are failed abruptly
\* (the wait handle of the function is released); any other resumed async
\* frame is as it was.  Torn down with a guest exception, a resumed async
\* frame is failed with that exception.
C21_Torn ==
  /\ \A f \in TornBy(TRUE) :
       (ResumedAsyncFunction(f) \/ ResumedAsyncGenerator(f))
       => \/ /\ fstate[f].wh = "failedCpp"
             /\ fstate[f].localsDecRefd
             /\ fstate[f].frees = 1
             /\ fstate[f].whReleased = ResumedAsyncFunction(f)
             /\ fstate[f].whExc = Null
          \/ /\ fstate[f].wh = "blocked"
             /\ fstate[f] = FreshFState([wh |-> "blocked"])
  /\ \A f \in TornBy(FALSE) :
       (ResumedAsyncFunction(f) \/ ResumedAsyncGenerator(f))
       => /\ fstate[f].wh = "failed"
          /\ fstate[f].whExc # Null
          /\ fstate[f].localsDecRefd

\* the step of unwindCpp that ends the teardown of a resumed async frame
C21_Step ==
  (CppRelease /\ (ResumedAsyncFunction(vmfp) \/ ResumedAsyncGenerator(vmfp)))
  => IF fstate[vmfp].wh \in {"running", "eager"}
     THEN /\ fstate[vmfp].localsDecRefd
          /\ fstate'[vmfp].wh = "failedCpp"
          /\ fstate'[vmfp].whReleased = ResumedAsyncFunction(vmfp)
     ELSE /\ fstate' = fstate
          /\ ~fstate[vmfp].localsDecRefd
          /\ ~Top.freeing

\* C21, amended: a resumed async-function frame torn down with a null
\* exception has its locals released and its wait handle failed abruptly
\* and released if the wait handle is running; a resumed async-generator
\* frame has its locals released and its generator failed abruptly if it is
\* eagerly executed or its wait handle is running.  Otherwise tearDownFrame
\* changes nothing of the frame: the locals stay, the wait handle or
\* generator stays in the state it had.
C21_FailedIfRunning == []C21_Torn /\ [][C21_Step]_vars

\* unwindCpp has torn down a resumed async function that was running
C21_Witness ==
  /\ CppActive
  /\ Top.kind = "cpp"
  /\ Top.torn # <<>>
  /\ ResumedAsyncFunction(Top.torn[1])
  /\ fstate[Top.torn[1]].wh = "failedCpp"
  /\ fstate[Top.torn[1]].whReleased
  /\ fstate[Top.torn[1]].localsDecRefd



(***************************************************************************)
(* C22.  Host driver fault release.                                        *)
(***************************************************************************)
\* the record is pinned to frame fp of VM nesting n
PinnedTo(fault, fp, n) == fault.m_raiseFrame = fp /\ fault.m_raiseNesting = n

\* the records of the sequence that are not pinned to (fp, n), in order
RECURSIVE NotPinned(_, _, _)
NotPinned(faults, fp, n) ==
  IF faults = <<>> THEN <<>>
  ELSE IF PinnedTo(Last(faults), fp, n) THEN NotPinned(Front(faults), fp, n)
  ELSE Append(NotPinned(Front(faults), fp, n), Last(faults))

\* C22: before unwindCpp tears a frame down, every record of the fault
\* stack pinned to that frame and the current nesting is removed, wherever
\* it sits, and the other records stay as they are, in their order; none
\* is pinned to the frame while it is dismantled, and when unwindCpp
\* re-raises none is pinned to a frame it tore down.
C22_Step ==
  /\ CppLoop
     => /\ m_faults' = NotPinned(m_faults, vmfp, Len(m_nestedVMs))
        /\ \A j \in DOMAIN m_faults' :
             ~PinnedTo(m_faults'[j], vmfp, Len(m_nestedVMs))
  /\ (CppDiscard \/ CppTearDown \/ CppRelease)
     => /\ m_faults' = m_faults
        /\ \A j \in DOMAIN m_faults :
             ~PinnedTo(m_faults[j], vmfp, Len(m_nestedVMs))
  /\ CppRethrow
     => /\ m_faults' = m_faults
        /\ \A j \in DOMAIN m_faults, f \in Range(Top.torn) :
             ~PinnedTo(m_faults[j], f, Len(m_nestedVMs))

C22_WitnessNested ==
  /\ AtCpp("Discard")
  /\ InNested
  /\ vmpc = 10
  /\ Len(m_faults) = Top.fbase
  /\ m_faults # <<>>
  /\ Last(m_faults) = calls[Len(calls) - 2].fault



(***************************************************************************)
(* C23.  The driver's copy of the fault and the fault stack, where guest   *)
(* code runs.                                                              *)
(***************************************************************************)
\* activation i is unwindPhp waiting for a destructor it has run
YieldedDriver(i) ==
  /\ i < Len(calls)
  /\ calls[i].kind = "php"
  /\ calls[i + 1].kind = "dtor"

\* the record that was the top of the stack when driver i ran the destructor
DriverRecord(i) == m_faults[calls[i + 1].fbase]

\* C23 as stated: wherever unwindPhp has handed control to guest code, a
\* destructor or a handler, the record that was on top of the stack then
\* equals the driver's copy.
C23_TopEqualsCopy ==
  /\ \A i \in DOMAIN calls :
       YieldedDriver(i) => DriverRecord(i) = calls[i].fault
  /\ (Returned("php", "ResumeVM") /\ calls = <<>> /\ m_faults # <<>>)
     => Bound(Last(m_faults))

\* while a destructor runs for driver i, the driver's record is on the
\* stack, beneath whatever the destructor's nesting pushes.  It equals the
\* driver's copy when the destructor is run by the release of the locals;
\* when it is run by discardStackTemps the copy has just been bound and the
\* record has not: it is the copy with its raise fields unset.
C23_Yielded ==
  \A i \in DOMAIN calls :
    YieldedDriver(i)
    => /\ calls[i + 1].fbase >= 1
       /\ Len(m_faults) >= calls[i + 1].fbase
       /\ IF calls[i].label = "Release"
          THEN DriverRecord(i) = calls[i].fault
          ELSE /\ calls[i].label = "Discard"
               /\ Bound(calls[i].fault)
               /\ ~Bound(DriverRecord(i))
               /\ DriverRecord(i) = ResetFault(calls[i].fault)

\* the hand-overs and the ways back
C23_Step ==
  /\ (DtorEnter /\ Top.kind = "php")
     => /\ Len(m_faults) > Top.fbase
        /\ IF Top.label = "Release" THEN Last(m_faults) = Top.fault
           ELSE Last(m_faults) = ResetFault(Top.fault)
  /\ (PhpSearch /\ Len(calls') < Len(calls))
     => /\ Last(m_faults') = [Top.fault EXCEPT !.m_handledCount = @ + 1]
        /\ Bound(Last(m_faults'))
        /\ Front(m_faults') = Front(m_faults)
  /\ (InNested /\ Len(calls') = Len(calls) - 2)
     => /\ m_faults' = SubSeq(m_faults, 1, calls[Len(calls) - 1].fbase)
        /\ calls'[Len(calls')].fault = calls[Len(calls) - 2].fault
  /\ (DtorReturn /\ Len(calls) >= 2)
     => /\ m_faults' = m_faults
        /\ calls'[Len(calls')].fault = calls[Len(calls) - 1].fault

\* C23, amended: unwindPhp works on a copy of the top record.  The top
\* record equals the copy when handler code is resumed (ResumeVM) and when
\* tearDownFrame runs destructors; when discardStackTemps runs destructors
\* the copy is freshly bound and the top record is still unbound, with the
\* same exception and handledCount 0.  A raise in the destructor pushes and
\* pops its own records above it and leaves that record and the copy as
\* they were.
C23_LocalCopy == []C23_Yielded /\ [][C23_Step]_vars

\* a destructor run by discardStackTemps has raised and caught a fault of
\* its own above the record of the driver, which is not bound yet
C23_Witness ==
  /\ Len(calls) = 2
  /\ YieldedDriver(1)
  /\ calls[1].label = "Discard"
  /\ Len(m_faults) = calls[2].fbase + 1
  /\ Bound(Last(m_faults))
  /\ ~Bound(DriverRecord(1))
  /\ Bound(calls[1].fault)

=============================================================================
